---- MODULE Spec2Model ----
(***************************************************************************)
(* A model of OpenMOL: the shared section reader (Reader / MolReader), the *)
(* PDB, LAMMPS-full and PSF readers built on it, and the build()           *)
(* normalisers of the PDB, PARM7, LAMMPS-full and TRIPOS MOL2 adapters.    *)
(*                                                                         *)
(* Python objects are records, Python lists are sequences (1-based here,   *)
(* 0-based in the source: position p of the source is p+1 of the model),   *)
(* None is NoneVal, and a raised exception is the variable err.            *)
(***************************************************************************)
EXTENDS Integers, Sequences, FiniteSets, TLC

VARIABLES
    cls,             \* class of the reader object: which subclass's methods run
    lines,           \* self.lines: the input file, one record per line
    ln,              \* line_no of enumerate(self.lines) in _process_lines (0-based)
    pc,              \* position of the running operation
    section,         \* self.section
    section_start,   \* self.section_start
    section_format,  \* self.section_format
    section_lines,   \* self.section_lines
    Mol,             \* self.Mol / MOL: the Molecule Record
    calls,           \* the invocations of _process_last_section so far, in order
    err,             \* the exception that unwound the operation, or NoErr
    pass,            \* how many times _process_lines has run on this reader
    lsec,            \* the local variable section of a format's own _process_lines
    adapter,         \* the adapters whose build() has been applied to MOL, in order
    hashseed,        \* this process's string hash order: the order set() iterates in
    first,           \* the record returned by the first build(), once there is one
    given,           \* the record build() was first given, kept for comparison
    ret,             \* what the last build() or write() returned: "MOL", "None", "False"
                     \* or "raise"; "none" before any
    fp               \* self.fp of a Writer: "open", "closed", or "none" without a Writer

vars == <<cls, lines, ln, pc, section, section_start, section_format,
          section_lines, Mol, calls, err, pass, lsec, adapter, hashseed, first,
          given, ret, fp>>

readerVars == <<section, section_start, section_format, section_lines, Mol, calls, err>>

buildVars == <<adapter, hashseed, first, given, ret>>

----------------------------------------------------------------------------
(* Bounds of the model *)

\* longest input file of the shared reader, in lines
MaxLines == 4

\* longest PDB file, in lines
MaxPDBLines == 4

\* most atoms of a record given to PDB.build, and the largest residue id among them
MaxPDBAtoms == 5

MaxResid == 2

\* atoms and bonds of a LAMMPS data file
MaxLmpAtoms == 2

MaxLmpBonds == 1

\* atoms of a record given to build()
MaxAtoms == 3

\* atoms of a record that carries a residue table and no per-atom residue info
MaxTableAtoms == 5

\* the NTYPES and NATYP pointers of a prmtop run up to this
MaxTypes == 2

\* atoms of a record given to a Writer
MaxWriteAtoms == 4

\* dihedral types of a record given to a Writer
MaxDihedTypes == 1

\* atoms and BOND lines of a MOL2 file
MaxMol2Atoms == 2

MaxMol2Bonds == 1

\* atoms of a prmtop file
MaxParmAtoms == 2

\* statements run on one AttrDict
MaxAttrOps == 3

\* build() and JSON round trips applied to one record, one after another
MaxCalls == 3

----------------------------------------------------------------------------
(* Python values *)

\* the title None: "%s" % None writes the word None
NoTitle == <<[num |-> FALSE, s |-> "None", n |-> 0]>>

NoneVal == "<None>"

NoErr == "<no error>"

\* next_line = None
SeqsUpTo(S, n) == UNION {[1..k -> S] : k \in 0..n}

Range(s) == {s[i] : i \in 1..Len(s)}

Last(s) == s[Len(s)]

Front(s) == SubSeq(s, 1, Len(s) - 1)

SetMax(S) == CHOOSE x \in S : \A y \in S : y <= x

SetMin(S) == CHOOSE x \in S : \A y \in S : x <= y

RECURSIVE SortedSeq(_)
SortedSeq(S) == IF S = {} THEN <<>> ELSE <<SetMin(S)>> \o SortedSeq(S \ {SetMin(S)})

RECURSIVE SeqSum(_)
SeqSum(s) == IF s = <<>> THEN 0 ELSE s[1] + SeqSum(Tail(s))

\* a list read at index j: Python counts a negative j from the end
PyValid(s, j) == -Len(s) <= j /\ j < Len(s)

PyGet(s, j) == IF j >= 0 THEN s[j + 1] ELSE s[Len(s) + j + 1]

\* list.index(x): the first position of x (0-based), or -1 where Python raises ValueError
IndexOf(s, x) ==
    IF \E i \in 1..Len(s) : s[i] = x
    THEN (CHOOSE i \in 1..Len(s) : s[i] = x /\ \A j \in 1..(i-1) : s[j] # x) - 1
    ELSE -1

----------------------------------------------------------------------------
(* The reader object: Reader of openmol.py and MolReader of array.py have   *)
(* the same fields and the same _process_lines / _new_section.             *)

Self ==
    [section |-> section, section_start |-> section_start,
     section_format |-> section_format, section_lines |-> section_lines,
     Mol |-> Mol, calls |-> calls, err |-> err]

SetSelf(r) ==
    /\ section' = r.section
    /\ section_start' = r.section_start
    /\ section_format' = r.section_format
    /\ section_lines' = r.section_lines
    /\ Mol' = r.Mol
    /\ calls' = r.calls
    /\ err' = r.err

\* Reader.__init__ / MolReader.__init__
ReaderInit(mol) ==
    [section |-> NoneVal, section_start |-> 0, section_format |-> NoneVal,
     section_lines |-> <<>>, Mol |-> mol, calls |-> <<>>, err |-> NoErr]

----------------------------------------------------------------------------
(* The Molecule Record.  Numbers the source holds as floats are integers    *)
(* here.                                                                   *)

\* initialize() of openmol.py: every field present, at its zero value
CoreInitialize ==
    [title |-> NoTitle, source_format |-> NoneVal, type |-> NoneVal,
     charge_type |-> NoneVal,
     no_atoms |-> 0, no_bonds |-> 0, no_angles |-> 0, no_diheds |-> 0,
     no_improper |-> 0, no_residues |-> 0,
     no_atom_types |-> 0, no_bond_types |-> 0, no_angle_types |-> 0,
     no_dihed_types |-> 0, no_improper_types |-> 0,
     unique_atom_types |-> <<>>,
     atom_name |-> <<>>, atom_x |-> <<>>, atom_y |-> <<>>, atom_z |-> <<>>,
     atom_q |-> <<>>, atom_type |-> <<>>,
     atom_type_index |-> <<>>, atom_resname |-> <<>>, atom_resid |-> <<>>,
     atom_mass |-> <<>>,
     bond_from |-> <<>>, bond_to |-> <<>>, bond_type |-> <<>>,
     angle_a |-> <<>>, angle_b |-> <<>>, angle_c |-> <<>>,
     dihed_a |-> <<>>, dihed_b |-> <<>>, dihed_c |-> <<>>, dihed_d |-> <<>>,
     improper_a |-> <<>>, improper_b |-> <<>>, improper_c |-> <<>>,
     improper_d |-> <<>>,
     residue_name |-> <<>>, residue_start |-> <<>>, residue_type |-> <<>>,
     box_x |-> 0, box_y |-> 0, box_z |-> 0,
     FF_lj_epsilon |-> <<>>, FF_lj_sigma |-> <<>>, pair_ff_index |-> <<>>,
     FF_bond_k |-> <<>>, FF_bond_eq |-> <<>>, bond_ff_index |-> <<>>,
     FF_angle_k |-> <<>>, FF_angle_eq |-> <<>>, angle_ff_index |-> <<>>,
     FF_dihed_k |-> <<>>, FF_dihed_phase |-> <<>>, FF_dihed_periodicity |-> <<>>,
     dihed_ff_index |-> <<>>, improper_ff_index |-> <<>>]

----------------------------------------------------------------------------
(* PDBReader (pdb.py).  A line of a PDB file is a record: k is words[0],   *)
(* tag is words[1] ("" when the line has one word, "CONECT" / "RESCON" /   *)
(* "SEGRNG" on a tagged REMARK), cols says whether the fixed columns of an *)
(* ATOM record parse, and the rest are the parsed columns.                 *)

\* core.initialize() plus PDBReader.__init__
PDBInitialize ==
    [source_format |-> "PDB", pdb_built |-> FALSE, comment |-> <<>>,
     bond_tacticity |-> <<>>] @@ CoreInitialize

\* the ATOM branch, one line: the columns are parsed, then appended; a line whose
\* columns do not parse raises ValueError("Non-standard PDB format")
RECURSIVE PDBAtomLines(_, _)
PDBAtomLines(self, lns) ==
    IF lns = <<>> THEN self
    ELSE LET line == lns[1] IN
         IF ~line.cols THEN [self EXCEPT !.err = "ValueError"]
         ELSE PDBAtomLines(
                [self EXCEPT !.Mol.atom_name = Append(@, line.name),
                             !.Mol.atom_type = Append(@, line.element),
                             !.Mol.atom_resname = Append(@, line.resname),
                             !.Mol.atom_resid = Append(@, line.resSeq - 1),
                             !.Mol.atom_x = Append(@, line.x),
                             !.Mol.atom_y = Append(@, line.y),
                             !.Mol.atom_z = Append(@, line.z),
                             !.Mol.atom_q = Append(@, 0)],
                Tail(lns))

\* the partners of one CONECT line (words[3:]), appended to unique unless the
\* reversed bond is already in it
RECURSIVE PDBConectPartners(_, _, _)
PDBConectPartners(unique, bn_from, others) ==
    IF others = <<>> THEN unique
    ELSE LET o == others[1]
             forward == <<bn_from, o.to - 1, o.ty, o.tac>>
             reverse == <<o.to - 1, bn_from, o.ty, o.tac>>
         IN PDBConectPartners(
                IF reverse \notin Range(unique) THEN Append(unique, forward) ELSE unique,
                bn_from, Tail(others))

\* the first loop of the CONECT branch: [unique, err]
RECURSIVE PDBConectLines(_, _)
PDBConectLines(unique, lns) ==
    IF lns = <<>> THEN [unique |-> unique, err |-> NoErr]
    ELSE LET line == lns[1] IN
         IF line.tag = "" THEN [unique |-> unique, err |-> "IndexError"]
         ELSE IF line.tag # "CONECT" THEN PDBConectLines(unique, Tail(lns))
         ELSE PDBConectLines(PDBConectPartners(unique, line.from - 1, line.others),
                             Tail(lns))

\* PDBReader._process_last_section
PDB_process_last_section(self, sec, lns, sformat) ==
    CASE sec = "REMARK" ->
           [self EXCEPT !.Mol.comment = @ \o [i \in 1..Len(lns) |-> lns[i].txt]]
      [] sec = "CRYST1" ->
           [self EXCEPT !.Mol.box_x = lns[1].a, !.Mol.box_y = lns[1].b,
                        !.Mol.box_z = lns[1].c]
      [] sec = "ATOM" -> PDBAtomLines(self, lns)
      [] sec = "CONECT" ->
           LET r == PDBConectLines(<<>>, lns)
               u == r.unique
           IN IF r.err # NoErr THEN [self EXCEPT !.err = r.err]
              ELSE [self EXCEPT
                      !.Mol.bond_from = @ \o [i \in 1..Len(u) |-> u[i][1]],
                      !.Mol.bond_to = @ \o [i \in 1..Len(u) |-> u[i][2]],
                      !.Mol.bond_type = @ \o [i \in 1..Len(u) |-> u[i][3]],
                      !.Mol.bond_tacticity = @ \o [i \in 1..Len(u) |-> u[i][4]]]
      [] sec = "END" -> self
      [] OTHER -> self

----------------------------------------------------------------------------
(* Mol2Reader (mol2.py) on the reader of array.py.  A line of a MOL2 file is *)
(* blank, a comment (#...), a section line (@<TRIPOS>name) or a data line of *)
(* whitespace-separated words w.  The reader's atoms are the rows of strc:   *)
(* a row holds the bond slots filled so far; the column Strc.ResId of strc   *)
(* is the list resid.  A cell new_atom() left unset holds NaN.               *)

\* the bond slots of a row of strc (Strc.Bonds of array.py)
MaxBondSlots == 8

\* np.nan, and the word it makes in an array of strings
NaN == [num |-> FALSE, s |-> "nan", n |-> 0]

\* MolReader.__init__ and Mol2Reader.__init__: info, crds, strc and meta; a
\* key meta does not hold yet is NoTitle
Mol2ReaderInitialize ==
    [info |-> <<>>, crds |-> <<>>, strc |-> <<>>, resid |-> <<>>, title |-> NoTitle,
     mol2_type |-> NoTitle, charge_type |-> NoTitle, no_atoms |-> 0, no_bonds |-> 0,
     no_residues |-> 0, comment |-> <<>>, bond_from |-> <<>>, bond_to |-> <<>>,
     bond_type |-> <<>>, bond_status_bit |-> <<>>]

\* the ATOM lines: one row of info (Name, Type, Q, ResName), of crds and of
\* strc for each; the residue id, the residue name and the charge are optional
RECURSIVE Mol2ReaderAtoms(_, _, _)
Mol2ReaderAtoms(self, lns, i) ==
    IF self.err # NoErr \/ i > Len(lns) THEN self
    ELSE LET w == lns[i].w
         IN IF Len(w) < 6 \/ \E j \in 3..5 : ~w[j].num
            THEN [self EXCEPT !.err = "ValueError"]
            ELSE IF (Len(w) > 6 /\ ~w[7].num) \/ (Len(w) > 8 /\ ~w[9].num)
            THEN [self EXCEPT !.err = "ValueError"]
            ELSE Mol2ReaderAtoms(
                     [self EXCEPT
                         !.Mol.info = Append(@, <<w[2].s, w[6].s,
                                                  IF Len(w) > 8 THEN w[9] ELSE NaN,
                                                  IF Len(w) > 7 THEN w[8] ELSE NaN>>),
                         !.Mol.crds = Append(@, <<w[3].n, w[4].n, w[5].n>>),
                         !.Mol.resid = Append(@, IF Len(w) > 6 THEN [w[7] EXCEPT !.n = @ - 1]
                                                 ELSE NaN),
                         !.Mol.strc = Append(@, <<>>)],
                     lns, i + 1)

\* the BOND lines: only an index past the last atom is refused.  "for i in
\* range(bond_type)": one free slot of the row of each end is filled with the
\* other end for each unit of the bond order.
RECURSIVE Mol2ReaderBonds(_, _, _)
Mol2ReaderBonds(self, lns, i) ==
    IF self.err # NoErr \/ i > Len(lns) THEN self
    ELSE LET w == lns[i].w
             strc == self.Mol.strc
             fill(rows, at, partner, order) ==
                 LET row == PyGet(rows, at)
                     free == MaxBondSlots - Len(row)
                     k == IF order < free THEN order ELSE free
                     pos == IF at >= 0 THEN at + 1 ELSE Len(rows) + at + 1
                 IN [rows EXCEPT ![pos] = row \o [j \in 1..k |-> partner]]
         IN IF Len(w) < 4 \/ ~w[2].num \/ ~w[3].num \/ ~w[4].num
            THEN [self EXCEPT !.err = "ValueError"]
            ELSE LET at1 == w[2].n - 1
                     at2 == w[3].n - 1
                 IN IF at1 >= Len(strc) \/ at2 >= Len(strc)
                    THEN [self EXCEPT !.err = "ValueError"]
                    ELSE IF w[4].n > 0 /\ (~PyValid(strc, at1) \/ ~PyValid(strc, at2))
                    THEN [self EXCEPT !.err = "IndexError"]
                    ELSE Mol2ReaderBonds(
                             [self EXCEPT
                                 !.Mol.strc = IF w[4].n > 0
                                              THEN fill(fill(strc, at1, at2, w[4].n),
                                                        at2, at1, w[4].n)
                                              ELSE strc,
                                 !.Mol.bond_from = Append(@, at1),
                                 !.Mol.bond_to = Append(@, at2),
                                 !.Mol.bond_type = Append(@, w[4]),
                                 !.Mol.bond_status_bit =
                                     IF Len(w) > 4 THEN Append(@, w[5]) ELSE @],
                             lns, i + 1)

\* Mol2Reader._process_last_section: lines[0] is the section line; of the
\* MOLECULE lines, lines[1] is the title and lines[2] holds the counts
Mol2_process_last_section(self, sec, lns, sformat) ==
    CASE sec = "COMMENT" -> [self EXCEPT !.Mol.comment = @ \o lns]
      [] sec = "MOLECULE" ->
           LET titled == IF Len(lns) > 1 THEN [self EXCEPT !.Mol.title = lns[2].w]
                         ELSE self
               w == lns[3].w
               n == Len(w)
           IN IF Len(lns) < 3 THEN titled
              ELSE IF \E j \in 1..(IF n < 3 THEN n ELSE 3) : ~w[j].num
              THEN [titled EXCEPT !.err = "ValueError"]
              ELSE [titled EXCEPT !.Mol.no_atoms = IF n > 0 THEN w[1].n ELSE @,
                                  !.Mol.no_bonds = IF n > 1 THEN w[2].n ELSE @,
                                  !.Mol.no_residues = IF n > 2 THEN w[3].n ELSE @,
                                  !.Mol.mol2_type = IF Len(lns) > 3 THEN lns[4].w ELSE @,
                                  !.Mol.charge_type = IF Len(lns) > 4 THEN lns[5].w ELSE @]
      [] sec = "ATOM" -> Mol2ReaderAtoms(self, lns, 2)
      [] sec = "BOND" -> Mol2ReaderBonds(self, lns, 2)
      [] OTHER -> self

----------------------------------------------------------------------------
(* The shared reader *)

\* self._process_last_section(section, lines, sformat), dispatched on the class
ProcessLastSection(c, self, sec, lns, sformat) ==
    LET logged == [self EXCEPT
                      !.calls = Append(@, [section |-> sec, lines |-> lns,
                                           sformat |-> sformat,
                                           start |-> self.section_start])]
    IN CASE c = "PDBReader" -> PDB_process_last_section(logged, sec, lns, sformat)
         [] c = "Mol2Reader" -> Mol2_process_last_section(logged, sec, lns, sformat)
         [] OTHER -> logged

\* _new_section with the reset moved before the flush: the handler is handed the
\* new section's name and an emptied buffer
NewSection_resetFirst(c, self, sec, line_no, sformat) ==
    IF sec = self.section THEN self
    ELSE LET reset == [self EXCEPT !.section = sec, !.section_start = line_no,
                                   !.section_format = sformat, !.section_lines = <<>>]
         IN IF self.section # NoneVal
            THEN ProcessLastSection(c, reset, reset.section, reset.section_lines,
                                    reset.section_format)
            ELSE reset

\* Reader._new_section / MolReader._new_section
NewSection(c, self, sec, line_no, sformat) ==
    IF sec = self.section THEN self
    ELSE LET flushed ==
                 IF self.section # NoneVal
                 THEN ProcessLastSection(c, self, self.section, self.section_lines,
                                         self.section_format)
                 ELSE self
         IN IF flushed.err # NoErr THEN flushed
            ELSE [flushed EXCEPT !.section = sec, !.section_start = line_no,
                                 !.section_format = sformat, !.section_lines = <<>>]

\* PDBReader._identify_section
PDB_identify_section(self, line_no, line, next_line) ==
    LET nexttag == IF next_line.k \in {"none", "blank"} THEN "" ELSE next_line.tag
    IN CASE line.k = "REMARK" /\ self.section = NoneVal ->
              NewSection("PDBReader", self, "REMARK", line_no, NoneVal)
         [] line.k = "CRYST1" -> NewSection("PDBReader", self, "CRYST1", line_no, NoneVal)
         [] line.k = "ATOM" -> NewSection("PDBReader", self, "ATOM", line_no, NoneVal)
         [] line.k = "REMARK" /\ self.section # NoneVal ->
              IF nexttag = "CONECT"
              THEN NewSection("PDBReader", self, "CONECT", line_no, NoneVal)
              ELSE IF nexttag = "RESCON"
              THEN NewSection("PDBReader", self, "RESCON", line_no, NoneVal)
              ELSE IF nexttag = "SEGRNG"
              THEN NewSection("PDBReader", self, "SEGRNG", line_no, NoneVal)
              ELSE self
         [] line.k = "END" -> NewSection("PDBReader", self, "END", line_no, NoneVal)
         [] OTHER -> self

\* Mol2Reader._identify_section: parts[1] of a section line without ">" fails
Mol2_identify_section(self, line_no, line, next_line) ==
    CASE line.k = "comment" -> NewSection("Mol2Reader", self, "COMMENT", line_no, NoneVal)
      [] line.k = "section" ->
           IF line.name = NoneVal THEN [self EXCEPT !.err = "IndexError"]
           ELSE NewSection("Mol2Reader", self, line.name, line_no, NoneVal)
      [] OTHER -> self

\* self._identify_section(line_no, line, next_line), dispatched on the class.  The
\* base classes leave it to the subclass: for them the line itself says which
\* section the classifier declares on it (k = "decl"), if any.
IdentifySection(c, self, line_no, line, next_line) ==
    CASE c = "PDBReader" -> PDB_identify_section(self, line_no, line, next_line)
      [] c = "Mol2Reader" -> Mol2_identify_section(self, line_no, line, next_line)
      [] OTHER -> IF line.k = "decl"
                  THEN NewSection(c, self, line.name, line_no, line.fmt)
                  ELSE self

\* next_line of _process_lines: self.lines[line_no+1], None past the end
NextLine(ls, i) == IF i + 2 <= Len(ls) THEN ls[i + 2] ELSE [k |-> "none"]

\* _process_lines without its last statement: nothing is flushed at end of input
ProcessLinesEnd_noFlush(c, self) == self

\* the call that ends _process_lines
ProcessLinesEnd(c, self) ==
    ProcessLastSection(c, self, self.section, self.section_lines, self.section_format)

\* _process_lines from line i (0-based) on, as one function of the reader and the
\* file: the loop body is the one the actions SkipBlank, Identify and AppendLine
\* take a step at a time, an exception ends it
RECURSIVE ProcessLines(_, _, _, _)
ProcessLines(c, self, ls, i) ==
    IF i >= Len(ls) THEN ProcessLinesEnd(c, self)
    ELSE IF ls[i + 1].k = "blank" THEN ProcessLines(c, self, ls, i + 1)
    ELSE LET identified == IdentifySection(c, self, i + 1, ls[i + 1], NextLine(ls, i))
         IN IF identified.err # NoErr THEN identified
            ELSE ProcessLines(c, [identified EXCEPT !.section_lines = Append(@, ls[i + 1])],
                              ls, i + 1)

----------------------------------------------------------------------------
(* PDB.build (pdb.py) *)

\* the loop with the restart offset one short: old_id - resid instead of
\* old_id - resid + 1
RECURSIVE PDBBuildLoop_offByOne(_, _, _, _)
PDBBuildLoop_offByOne(resids, i, offset, old_id) ==
    IF i > Len(resids) THEN resids
    ELSE LET resid == resids[i]
             off == IF old_id > resid /\ resid = 0
                    THEN offset + (old_id - resid)
                    ELSE offset
         IN PDBBuildLoop_offByOne([resids EXCEPT ![i] = resid + off], i + 1, off, resid)

\* the loop of PDB.build over enumerate(atom_resid).  In the elif branch the
\* source constructs a ValueError and does not raise it: the branch does nothing.
RECURSIVE PDBBuildLoop(_, _, _, _)
PDBBuildLoop(resids, i, offset, old_id) ==
    IF i > Len(resids) THEN resids
    ELSE LET resid == resids[i]
             off == IF old_id > resid /\ resid = 0
                    THEN offset + (old_id - resid + 1)
                    ELSE offset
         IN PDBBuildLoop([resids EXCEPT ![i] = resid + off], i + 1, off, resid)

\* PDB.build
PDBBuild(mol) ==
    [mol EXCEPT !.atom_resid = IF Cardinality(Range(@)) > 1
                               THEN PDBBuildLoop(@, 1, 0, 0)
                               ELSE @,
                !.pdb_built = TRUE]

----------------------------------------------------------------------------
(* build() of the PARM7, LAMMPS-full and TRIPOS MOL2 adapters.  A record    *)
(* given to these carries, besides the fields of initialize(), the keys     *)
(* the adapters add; keys says which adapters' keys the dict holds, and a   *)
(* key the dict does not hold has its zero value here.  A running build is  *)
(* a frame [M, ret, err]: M the dict, ret "run" until the function returns  *)
(* ("MOL", "None") or an exception leaves it ("raise", err the exception).  *)

\* the keys amber_parm7.initialize() adds
Parm7Defaults ==
    [parm7_lj_acoeff |-> <<>>, parm7_lj_bcoeff |-> <<>>, parm7_lj_index |-> <<>>,
     parm7_lj_epsilon |-> <<>>, parm7_lj_sigma |-> <<>>, PARM_NTYPES |-> 0]

\* the key lammps_full.initialize() adds (pair_ff_index is a key of every record)
LammpsDefaults == [unique_atom_mass |-> <<>>]

\* a record no build() has touched and no adapter has added keys to
Unbuilt ==
    [keys |-> {}, parm7_built |-> FALSE, lammps_built |-> FALSE,
     mol2_built |-> FALSE, source_json |-> NoneVal]

\* list(set(S)) of strings: the elements in this process's hash order
ListOfSet(S) == SelectSeq(hashseed, LAMBDA t : t \in S)

Running(M) == [M |-> M, ret |-> "run", err |-> NoErr]

Raise(f, e) == [f EXCEPT !.ret = "raise", !.err = e]

Return(f, r) == IF f.ret = "run" THEN [f EXCEPT !.ret = r] ELSE f

\* the loop with every residue running to the last atom: end = no_atoms always
RECURSIVE ExpandResidues_toLastAtom(_, _)
ExpandResidues_toLastAtom(f, r) ==
    IF f.ret # "run" \/ r >= Len(f.M.residue_start) THEN f
    ELSE IF r >= Len(f.M.residue_name) THEN Raise(f, "IndexError")
    ELSE LET st == f.M.residue_start[r + 1]
             n == IF f.M.no_atoms > st THEN f.M.no_atoms - st ELSE 0
         IN ExpandResidues_toLastAtom(
                [f EXCEPT !.M.atom_resid = @ \o [i \in 1..n |-> r],
                          !.M.atom_resname = @ \o [i \in 1..n |-> f.M.residue_name[r + 1]]],
                r + 1)

\* the body of "for r, st in enumerate(MOL['residue_start'])", from residue r on
RECURSIVE ExpandResidues(_, _)
ExpandResidues(f, r) ==
    IF f.ret # "run" \/ r >= Len(f.M.residue_start) THEN f
    ELSE IF r >= Len(f.M.residue_name) THEN Raise(f, "IndexError")
    ELSE LET st == f.M.residue_start[r + 1]
             end == IF Len(f.M.residue_start) > r + 1
                    THEN f.M.residue_start[r + 2]
                    ELSE f.M.no_atoms
             n == IF end > st THEN end - st ELSE 0
         IN ExpandResidues(
                [f EXCEPT !.M.atom_resid = @ \o [i \in 1..n |-> r],
                          !.M.atom_resname = @ \o [i \in 1..n |-> f.M.residue_name[r + 1]]],
                r + 1)

\* "build residue id and name list", the same block in the three build()s
BuildResidues(f) ==
    IF f.ret = "run" /\ Len(f.M.atom_resname) = 0 THEN ExpandResidues(f, 0) ELSE f

\* the body of "for i in range(MOL['no_atoms'])" that fills atom_type_index
RECURSIVE TypeIndexLoop(_, _)
TypeIndexLoop(f, i) ==
    IF f.ret # "run" \/ i >= f.M.no_atoms THEN f
    ELSE IF ~PyValid(f.M.atom_type, i) THEN Raise(f, "IndexError")
    ELSE LET t == IndexOf(f.M.unique_atom_types, f.M.atom_type[i + 1])
         IN IF t = -1 THEN Raise(f, "ValueError")
            ELSE TypeIndexLoop([f EXCEPT !.M.atom_type_index = Append(@, t)], i + 1)

\* "build indices of types", the same block in the PARM7 and LAMMPS build()s:
\* the index is rebuilt only when its length is not no_atoms
BuildTypeIndex(f) ==
    IF f.ret = "run" /\ Len(f.M.atom_type_index) # f.M.no_atoms
    THEN TypeIndexLoop([f EXCEPT !.M.atom_type_index = <<>>], 0)
    ELSE f

\* a Lennard-Jones value num/den (root = 1) or its sixth root (root = 6), kept
\* unevaluated; every zero is LJZero
LJZero == [num |-> 0, den |-> 1, root |-> 1]

LJValue(num, den, root) ==
    IF num = 0 THEN LJZero ELSE [num |-> num, den |-> den, root |-> root]

\* eps = 0.25 * B**2 / A, guarded by A == 0.0
LJEpsilon(A, B) == IF A = 0 THEN LJZero ELSE LJValue(B * B, 4 * A, 1)

\* sigma without the guard: A / B is evaluated for every B
LJSigma_unguarded(A, B) == LJValue(A, B, 6)

\* sigma = (A / B)**(1.0/6.0), guarded by B == 0.0
LJSigma(A, B) == IF B = 0 THEN LJZero ELSE LJValue(A, B, 6)

\* the body of "for i in range(MOL['PARM_NTYPES'])" of the PARM7 build
RECURSIVE Parm7LJLoop(_, _)
Parm7LJLoop(f, i) ==
    IF f.ret # "run" \/ i >= f.M.PARM_NTYPES THEN f
    ELSE LET p == i * (f.M.PARM_NTYPES + 1)
         IN IF ~PyValid(f.M.parm7_lj_index, p) THEN Raise(f, "IndexError")
            ELSE LET j == PyGet(f.M.parm7_lj_index, p) - 1
                 IN IF ~PyValid(f.M.parm7_lj_acoeff, j) \/ ~PyValid(f.M.parm7_lj_bcoeff, j)
                    THEN Raise(f, "IndexError")
                    ELSE LET A == PyGet(f.M.parm7_lj_acoeff, j)
                             B == PyGet(f.M.parm7_lj_bcoeff, j)
                         IN Parm7LJLoop(
                                [f EXCEPT !.M.parm7_lj_epsilon = Append(@, LJEpsilon(A, B)),
                                          !.M.parm7_lj_sigma = Append(@, LJSigma(A, B))],
                                i + 1)

\* "If we have A, B coeffs, build epsilon, sigma of parm7"
Parm7LJ(f) ==
    IF /\ f.ret = "run"
       /\ Len(f.M.parm7_lj_acoeff) # 0
       /\ Len(f.M.parm7_lj_sigma) # Len(f.M.unique_atom_types)
       /\ Len(f.M.parm7_lj_index) # 0
    THEN Parm7LJLoop(f, 0)
    ELSE f

\* the body of "for i in range(MOL['no_atom_types'])" of the PARM7 build: the
\* first atom of type i, its pair index, the parm7 values at that index
RECURSIVE Parm7PairLoop(_, _)
Parm7PairLoop(f, i) ==
    IF f.ret # "run" \/ i >= f.M.no_atom_types THEN f
    ELSE LET aix == IndexOf(f.M.atom_type_index, i)
         IN IF aix = -1 THEN Raise(f, "ValueError")
            ELSE IF ~PyValid(f.M.pair_ff_index, aix) THEN Raise(f, "IndexError")
            ELSE LET pfx == PyGet(f.M.pair_ff_index, aix)
                 IN IF ~PyValid(f.M.parm7_lj_epsilon, pfx) THEN Raise(f, "IndexError")
                    ELSE LET g == [f EXCEPT !.M.FF_lj_epsilon =
                                       Append(@, PyGet(f.M.parm7_lj_epsilon, pfx))]
                         IN IF ~PyValid(f.M.parm7_lj_sigma, pfx) THEN Raise(g, "IndexError")
                            ELSE Parm7PairLoop(
                                     [g EXCEPT !.M.FF_lj_sigma =
                                         Append(@, PyGet(f.M.parm7_lj_sigma, pfx))],
                                     i + 1)

\* the same loop of the LAMMPS build: the pair index is read only when
\* len(pair_ff_index) > i, and the parm7 tables are keys the dict may lack
RECURSIVE LammpsPairLoop(_, _)
LammpsPairLoop(f, i) ==
    IF f.ret # "run" \/ i >= f.M.no_atom_types THEN f
    ELSE LET aix == IndexOf(f.M.atom_type_index, i)
         IN IF aix = -1 THEN Raise(f, "ValueError")
            ELSE IF ~(Len(f.M.pair_ff_index) > i) THEN LammpsPairLoop(f, i + 1)
            ELSE IF ~PyValid(f.M.pair_ff_index, aix) THEN Raise(f, "IndexError")
            ELSE LET pfx == PyGet(f.M.pair_ff_index, aix)
                 IN IF "parm7" \notin f.M.keys THEN Raise(f, "KeyError")
                    ELSE IF ~PyValid(f.M.parm7_lj_epsilon, pfx) THEN Raise(f, "IndexError")
                    ELSE LET g == [f EXCEPT !.M.FF_lj_epsilon =
                                       Append(@, PyGet(f.M.parm7_lj_epsilon, pfx))]
                         IN IF ~PyValid(f.M.parm7_lj_sigma, pfx) THEN Raise(g, "IndexError")
                            ELSE LammpsPairLoop(
                                     [g EXCEPT !.M.FF_lj_sigma =
                                         Append(@, PyGet(f.M.parm7_lj_sigma, pfx))],
                                     i + 1)

\* the FF_lj tables are rebuilt when either length is not no_atom_types
PairCoeffsStale(M) ==
    Len(M.FF_lj_epsilon) # M.no_atom_types \/ Len(M.FF_lj_sigma) # M.no_atom_types

\* "build the lj params of each type" of the PARM7 build
Parm7Pair(f) ==
    IF f.ret = "run" /\ PairCoeffsStale(f.M)
    THEN Parm7PairLoop([f EXCEPT !.M.FF_lj_epsilon = <<>>, !.M.FF_lj_sigma = <<>>], 0)
    ELSE f

\* "build the lj params of each type" of the LAMMPS build
LammpsPair(f) ==
    IF f.ret = "run" /\ PairCoeffsStale(f.M)
    THEN LammpsPairLoop([f EXCEPT !.M.FF_lj_epsilon = <<>>, !.M.FF_lj_sigma = <<>>], 0)
    ELSE f

\* amber_parm7.build(MOL)
Parm7Build(mol) ==
    LET f1 == BuildResidues(Running([mol EXCEPT !.keys = @ \cup {"parm7"}]))
        f2 == IF f1.ret # "run" THEN f1
              ELSE [f1 EXCEPT !.M.no_bond_types = Len(f1.M.FF_bond_k),
                              !.M.no_angle_types = Len(f1.M.FF_angle_k),
                              !.M.no_dihed_types = Len(f1.M.FF_dihed_k),
                              !.M.unique_atom_types = ListOfSet(Range(f1.M.atom_type))]
        f5 == Parm7Pair(BuildTypeIndex(Parm7LJ(f2)))
    IN IF f5.ret # "run" THEN f5
       ELSE Return([f5 EXCEPT !.M.parm7_built = TRUE], "MOL")

\* the body of "for unique_atom in MOL['unique_atom_types']" of the LAMMPS build
RECURSIVE UniqueMassLoop(_, _)
UniqueMassLoop(f, u) ==
    IF f.ret # "run" \/ u >= Len(f.M.unique_atom_types) THEN f
    ELSE LET i == IndexOf(f.M.atom_type, f.M.unique_atom_types[u + 1])
         IN IF i = -1 THEN Raise(f, "ValueError")
            ELSE IF ~PyValid(f.M.atom_mass, i) THEN Raise(f, "IndexError")
            ELSE UniqueMassLoop(
                     [f EXCEPT !.M.unique_atom_mass = Append(@, PyGet(f.M.atom_mass, i))],
                     u + 1)

\* "if we have individual atom masses list, build type's masses"
LammpsMass(f) ==
    IF f.ret = "run" /\ Len(f.M.unique_atom_mass) = 0 /\ Len(f.M.atom_mass) # 0
    THEN UniqueMassLoop(f, 0)
    ELSE f

\* lammps_full.build(MOL)
LammpsBuild(mol) ==
    LET f1 == BuildResidues(Running([mol EXCEPT !.keys = @ \cup {"lammps"}]))
        f4 == LammpsPair(BuildTypeIndex(LammpsMass(f1)))
    IN IF f4.ret # "run" THEN f4
       ELSE Return([f4 EXCEPT !.M.lammps_built = TRUE], "MOL")

\* the body of "for i, resid in enumerate(MOL['atom_resid'])" that renumbers
RECURSIVE Mol2RenumberLoop(_, _, _, _)
Mol2RenumberLoop(f, i, old_id, id_num) ==
    IF f.ret # "run" \/ i >= Len(f.M.atom_resid) THEN f
    ELSE LET resid == f.M.atom_resid[i + 1]
         IN IF old_id > resid THEN Return(f, "None")
            ELSE LET n == IF resid # old_id THEN id_num + 1 ELSE id_num
                 IN Mol2RenumberLoop([f EXCEPT !.M.atom_resid[i + 1] = n], i + 1, resid, n)

\* "Fix atom resids order": only when more than one distinct id is present
Mol2Renumber(f, unique_resids) ==
    IF f.ret = "run" /\ Cardinality(unique_resids) > 1
    THEN Mol2RenumberLoop(f, 0, 0, 0)
    ELSE f

\* "if no type set, use single bond": one "1" per bond of the no_bonds header
Mol2BondTypes(f) ==
    IF f.ret = "run" /\ Len(f.M.bond_type) = 0
    THEN [f EXCEPT !.M.bond_type =
             [i \in 1..(IF f.M.no_bonds > 0 THEN f.M.no_bonds ELSE 0) |-> "1"]]
    ELSE f

\* the body of "for i, resid in enumerate(MOL['atom_resid'])" that rebuilds the
\* residue table
RECURSIVE Mol2TableLoop(_, _, _)
Mol2TableLoop(f, i, current_id) ==
    IF f.ret # "run" \/ i >= Len(f.M.atom_resid) THEN f
    ELSE LET resid == f.M.atom_resid[i + 1]
         IN IF resid = current_id THEN Mol2TableLoop(f, i + 1, current_id)
            ELSE LET g == [f EXCEPT !.M.residue_start = Append(@, i)]
                 IN IF ~PyValid(g.M.atom_resname, i) THEN Raise(g, "IndexError")
                    ELSE Mol2TableLoop(
                             [g EXCEPT !.M.residue_name = Append(@, g.M.atom_resname[i + 1])],
                             i + 1, resid)

\* "Fix residue list": the table is rebuilt from the atoms when its length is
\* not the number of distinct ids counted before the renumbering
Mol2Table(f, unique_resids) ==
    IF f.ret = "run" /\ Len(f.M.residue_start) # Cardinality(unique_resids)
    THEN LET g == [f EXCEPT !.M.residue_start = <<0>>,
                            !.M.residue_type = <<>>,
                            !.M.residue_name = <<>>]
         IN IF Len(g.M.atom_resname) = 0 THEN Raise(g, "IndexError")
            ELSE Mol2TableLoop(
                     [g EXCEPT !.M.residue_name = <<g.M.atom_resname[1]>>], 0, 0)
    ELSE f

\* the counts, the comparison with the distinct ids, the default residue types
Mol2Counts(f, unique_resids) ==
    IF f.ret # "run" THEN f
    ELSE LET g == [f EXCEPT !.M.no_residues = Len(f.M.residue_name),
                            !.M.no_atoms = Len(f.M.atom_name),
                            !.M.no_bonds = Len(f.M.bond_from)]
         IN IF Cardinality(unique_resids) # g.M.no_residues THEN Return(g, "None")
            ELSE Return(
                     [g EXCEPT !.M.residue_type =
                                   IF Len(@) = 0
                                   THEN [i \in 1..g.M.no_residues |-> "RESIDUE"]
                                   ELSE @,
                               !.M.mol2_built = TRUE],
                     "MOL")

\* tripos_mol2.build(MOL)
Mol2Build(mol) ==
    LET f0 == Running([mol EXCEPT
                  !.keys = @ \cup {"mol2"},
                  !.type = IF @ \in {NoneVal, ""} THEN "SMALL" ELSE @,
                  !.charge_type = IF @ \in {NoneVal, ""} THEN "USER_CHARGES" ELSE @])
        f1 == BuildResidues(f0)
        unique_resids == Range(f1.M.atom_resid)
    IN Mol2Counts(Mol2Table(Mol2BondTypes(Mol2Renumber(f1, unique_resids)),
                            unique_resids),
                  unique_resids)

----------------------------------------------------------------------------
(* The LAMMPS-full reader (lammps_full.py).  A line of a data file is a     *)
(* record: k is "blank", "comment" (the stripped line starts with #) or     *)
(* "text"; w is the words before the first #, each a number [num, n] or a   *)
(* word [s]; c is the stripped text after the first #, NoneVal without a #. *)

W(s) == [num |-> FALSE, s |-> s, n |-> 0]

N(n) == [num |-> TRUE, s |-> "", n |-> n]

\* lines of a data file
LmpBlank == [k |-> "blank", w |-> <<>>, c |-> NoneVal]

LmpText(w) == [k |-> "text", w |-> w, c |-> NoneVal]

LmpNoted(w, c) == [k |-> "text", w |-> w, c |-> c]

\* Reader.__init__ of lammps_full.py
LammpsInitialize ==
    [(CoreInitialize @@ Parm7Defaults @@ LammpsDefaults @@ Unbuilt) EXCEPT
        !.source_format = "LAMMPS FULL",
        !.keys = {"lammps"}]

\* the state of _process_lines after a line: the record, the local section,
\* the exception raised if any, and whether the function returned
LmpOut(M, sec) == [Mol |-> M, section |-> sec, err |-> NoErr, returned |-> FALSE]

LmpRaise(M, sec, e) == [Mol |-> M, section |-> sec, err |-> e, returned |-> FALSE]

LmpReturn(M, sec) == [Mol |-> M, section |-> sec, err |-> NoErr, returned |-> TRUE]

\* _section_starts: the count of a line "<digits> <startswith>", else -1
SectionStarts(line, startswith) ==
    IF /\ line.c = NoneVal
       /\ Len(line.w) = Len(startswith) + 1
       /\ line.w[1].num /\ line.w[1].n >= 0
       /\ \A j \in 1..Len(startswith) : line.w[j + 1] = W(startswith[j])
    THEN line.w[1].n
    ELSE -1

\* the section a keyword line opens
LmpKeywords ==
    [Masses |-> "mass", Atoms |-> "atom", Bonds |-> "bond", Angles |-> "angle",
     Dihedrals |-> "dihed", Impropers |-> "improper"]

\* every one of the first k words parses as a number
Parses(line, k) == \A j \in 1..k : line.w[j].num

\* section == 'counts': item is the item of a counts line "<digits> <item>s",
\* "" when the line is none
LmpCounts(M, line) ==
    LET item ==
            IF /\ line.c = NoneVal /\ Len(line.w) = 2
               /\ line.w[1].num /\ line.w[1].n >= 0 /\ ~line.w[2].num
            THEN CASE line.w[2].s = "atoms" -> "atom"
                   [] line.w[2].s = "bonds" -> "bond"
                   [] line.w[2].s = "angles" -> "angle"
                   [] line.w[2].s = "dihedrals" -> "dihedral"
                   [] line.w[2].s = "impropers" -> "improper"
                   [] OTHER -> ""
            ELSE ""
        number == line.w[1].n
    IN CASE item = "bond" -> LmpOut([M EXCEPT !.no_bonds = number], "counts")
         [] item = "angle" -> LmpOut([M EXCEPT !.no_angles = number], "counts")
         [] item = "dihedral" -> LmpOut([M EXCEPT !.no_diheds = number], "counts")
         [] item = "improper" -> LmpOut([M EXCEPT !.no_improper = number], "counts")
         [] item = "atom" -> LmpReturn(M, "counts")
         [] OTHER ->
              IF SectionStarts(line, <<"atom", "types">>) >= 0
              THEN LmpOut([M EXCEPT !.no_atom_types =
                              SectionStarts(line, <<"atom", "types">>)], "types")
              ELSE LmpOut(M, "counts")

\* section == 'types': item is the item of a types line "<digits> <item> types",
\* "" when the line is none
LmpTypes(M, line) ==
    LET item ==
            IF /\ line.c = NoneVal /\ Len(line.w) = 3
               /\ line.w[1].num /\ line.w[1].n >= 0 /\ ~line.w[2].num
               /\ line.w[3] = W("types")
            THEN line.w[2].s
            ELSE ""
        number == line.w[1].n
    IN CASE item = "" ->
              IF /\ Len(line.w) = 4 /\ line.c = NoneVal
                 /\ Parses(line, 2)
                 /\ line.w[3] = W("xlo") /\ line.w[4] = W("xhi")
              THEN LmpOut([M EXCEPT !.box_x = line.w[2].n - line.w[1].n], "boxsize")
              ELSE LmpOut(M, "types")
         [] item = "bond" -> LmpOut([M EXCEPT !.no_bond_types = number], "types")
         [] item = "angle" -> LmpOut([M EXCEPT !.no_angle_types = number], "types")
         [] item = "dihedral" -> LmpOut([M EXCEPT !.no_dihed_types = number], "types")
         [] item = "improper" -> LmpOut([M EXCEPT !.no_improper_types = number], "types")
         [] OTHER -> LmpReturn(M, "types")

\* section == 'boxsize': line.split() gives the words before the #, and one
\* more for a comment.  In the else branch the source constructs a
\* ValueError and does not raise it.
LmpBoxsize(M, line) ==
    IF Len(line.w) + (IF line.c = NoneVal THEN 0 ELSE 1) < 4
    THEN LmpRaise(M, "boxsize", "AssertionError")
    ELSE IF Len(line.w) < 2 \/ ~Parses(line, 2) THEN LmpRaise(M, "boxsize", "ValueError")
    ELSE LET size == line.w[2].n - line.w[1].n
         IN IF Len(line.w) >= 3 /\ line.w[3] = W("ylo")
            THEN LmpOut([M EXCEPT !.box_y = size], "boxsize")
            ELSE IF Len(line.w) >= 3 /\ line.w[3] = W("zlo")
            THEN LmpOut([M EXCEPT !.box_z = size], "boxsize")
            ELSE LmpOut(M, "boxsize")

\* "if comment:" of a data line
\* section == 'mass'; the name stored for a type without a comment is the int
\* type_id - 1
LmpMass(M, line) ==
    IF Len(line.w) < 2 THEN LmpRaise(M, "mass", "AssertionError")
    ELSE IF ~Parses(line, 2) THEN LmpRaise(M, "mass", "ValueError")
    ELSE LmpOut([M EXCEPT
             !.unique_atom_mass = Append(@, line.w[2].n),
             !.unique_atom_types =
                 Append(@, IF line.c \notin {NoneVal, ""} THEN line.c
                           ELSE LET TypeIdNames ==
                                        <<"<int 0>", "<int 1>", "<int 2>", "<int 3>">>
                                    k == line.w[1].n - 1
                                IN IF k + 1 \in DOMAIN TypeIdNames
                                   THEN TypeIdNames[k + 1] ELSE "<int>")],
             "mass")

\* section == 'atom': id, molecule, type, charge, x, y, z
LmpAtom(M, line) ==
    IF Len(line.w) < 7 THEN LmpRaise(M, "atom", "AssertionError")
    ELSE IF \E j \in 2..7 : ~line.w[j].num THEN LmpRaise(M, "atom", "ValueError")
    ELSE LET M1 == [M EXCEPT !.atom_x = Append(@, line.w[5].n),
                             !.atom_y = Append(@, line.w[6].n),
                             !.atom_z = Append(@, line.w[7].n),
                             !.atom_q = Append(@, line.w[4].n),
                             !.atom_type_index = Append(@, line.w[3].n - 1),
                             !.atom_resid = Append(@, line.w[2].n - 1),
                             !.atom_resname = Append(@, line.w[2].n)]
         IN IF line.c \notin {NoneVal, ""}
            THEN LmpOut([M1 EXCEPT !.atom_name = Append(@, line.c),
                                   !.atom_type = Append(@, line.c)], "atom")
            ELSE LmpOut(M1, "atom")

\* section == 'bond': the type is read from info[1], the atoms from info[2], info[3]
LmpBond(M, line) ==
    IF Len(line.w) < 4 THEN LmpRaise(M, "bond", "AssertionError")
    ELSE IF \E j \in 2..4 : ~line.w[j].num THEN LmpRaise(M, "bond", "ValueError")
    ELSE LmpOut([M EXCEPT !.bond_ff_index = Append(@, line.w[2].n - 1),
                          !.bond_from = Append(@, line.w[3].n - 1),
                          !.bond_to = Append(@, line.w[4].n - 1)], "bond")

\* section == 'angle': the type is read from info[0], the atoms from info[1..3]
LmpAngle(M, line) ==
    IF Len(line.w) < 4 THEN LmpRaise(M, "angle", "AssertionError")
    ELSE IF ~Parses(line, 4) THEN LmpRaise(M, "angle", "ValueError")
    ELSE LmpOut([M EXCEPT !.angle_a = Append(@, line.w[2].n - 1),
                          !.angle_b = Append(@, line.w[3].n - 1),
                          !.angle_c = Append(@, line.w[4].n - 1),
                          !.angle_ff_index = Append(@, line.w[1].n - 1)], "angle")

\* section == 'dihed': the type is read from info[0], the atoms from info[1..4]
LmpDihed(M, line) ==
    IF Len(line.w) < 5 THEN LmpRaise(M, "dihed", "AssertionError")
    ELSE IF ~Parses(line, 5) THEN LmpRaise(M, "dihed", "ValueError")
    ELSE LmpOut([M EXCEPT !.dihed_a = Append(@, line.w[2].n - 1),
                          !.dihed_b = Append(@, line.w[3].n - 1),
                          !.dihed_c = Append(@, line.w[4].n - 1),
                          !.dihed_d = Append(@, line.w[5].n - 1),
                          !.dihed_ff_index = Append(@, line.w[1].n - 1)], "dihed")

\* section == 'improper': a line without a # closes the section
LmpImproper(M, line) ==
    IF line.c = NoneVal THEN LmpOut(M, NoneVal)
    ELSE IF Len(line.w) < 5 THEN LmpRaise(M, "improper", "AssertionError")
    ELSE IF ~Parses(line, 5) THEN LmpRaise(M, "improper", "ValueError")
    ELSE LmpOut([M EXCEPT !.improper_a = Append(@, line.w[2].n - 1),
                          !.improper_b = Append(@, line.w[3].n - 1),
                          !.improper_c = Append(@, line.w[4].n - 1),
                          !.improper_d = Append(@, line.w[5].n - 1),
                          !.improper_ff_index = Append(@, line.w[1].n - 1)], "improper")

\* the body of the loop of _process_lines for a line that is neither blank nor
\* a comment nor line 0
LmpLine(M, sec, line) ==
    LET first_word == line.w[1]
    IN IF sec = NoneVal /\ SectionStarts(line, <<"atoms">>) >= 0
       THEN LmpOut([M EXCEPT !.no_atoms = SectionStarts(line, <<"atoms">>)], "counts")
       ELSE IF ~first_word.num /\ first_word.s \in DOMAIN LmpKeywords
       THEN LmpOut(M, LmpKeywords[first_word.s])
       ELSE IF line.c = NoneVal /\ Last(line.w) = W("Coeffs")
       THEN LmpOut(M, NoneVal)
       ELSE CASE sec = NoneVal -> LmpOut(M, sec)
              [] sec = "counts" -> LmpCounts(M, line)
              [] sec = "types" -> LmpTypes(M, line)
              [] sec = "boxsize" -> LmpBoxsize(M, line)
              [] sec = "mass" -> LmpMass(M, line)
              [] sec = "atom" -> LmpAtom(M, line)
              [] sec = "bond" -> LmpBond(M, line)
              [] sec = "angle" -> LmpAngle(M, line)
              [] sec = "dihed" -> LmpDihed(M, line)
              [] sec = "improper" -> LmpImproper(M, line)

----------------------------------------------------------------------------
(* tripos_mol2.read: the function reads the file line by line into a record. *)

\* tripos_mol2.initialize
Mol2Initialize ==
    [description |-> <<>>, atom_status_bit |-> <<>>, residue_dict_type |-> <<>>,
     residue_chain |-> <<>>, residue_sub_type |-> <<>>, residue_comment |-> <<>>,
     residue_inter_bonds |-> <<>>, residue_status_bits |-> <<>>,
     no_features |-> 0, no_sets |-> 0, mol2_status_bits |-> <<>>,
     mol2_comment |-> <<>>]
    @@ [CoreInitialize EXCEPT !.source_format = "TRIPOS MOL2"]

\* core.check_atoms_ok
CheckAtomsOk(M) ==
    /\ M.no_atoms # 0
    /\ ~(Len(M.atom_q) # 0 /\ M.no_atoms # Len(M.atom_q))
    /\ M.no_atoms = Len(M.atom_name)
    /\ M.no_atoms = Len(M.atom_x)
    /\ M.no_atoms = Len(M.atom_y)
    /\ M.no_atoms = Len(M.atom_z)
    /\ M.no_atoms = Len(M.atom_type)

\* core.check_bonds_ok: the counts only
CheckBondsOk(M) == M.no_bonds = Len(M.bond_from) /\ M.no_bonds = Len(M.bond_to)

\* check_last_section(section, MOL): [ok, M].  core.check_residues_ok compares
\* no_residues with the lengths of residue_name and residue_start.
Mol2CheckLastSection(sec, M) ==
    CASE sec = "ATOM" ->
           IF ~CheckAtomsOk(M) THEN [ok |-> FALSE, M |-> M]
           ELSE [ok |-> TRUE,
                 M |-> [M EXCEPT !.unique_atom_types = ListOfSet(Range(M.atom_type))]]
      [] sec = "BOND" -> [ok |-> CheckBondsOk(M), M |-> M]
      [] sec = "SUBSTRUCTURE" ->
           [ok |-> M.no_residues = Len(M.residue_name)
                   /\ M.no_residues = Len(M.residue_start),
            M |-> M]
      [] OTHER -> [ok |-> TRUE, M |-> M]

\* section == 'BOND': the ids are decremented and stored; bond_status_bit is no
\* key of the record
Mol2Bond(f, w) ==
    IF Len(w) < 4 THEN Return(f, "None")
    ELSE IF ~w[2].num THEN Raise(f, "ValueError")
    ELSE LET g == [f EXCEPT !.M.bond_from = Append(@, w[2].n - 1)]
         IN IF ~w[3].num THEN Raise(g, "ValueError")
            ELSE LET h == [g EXCEPT !.M.bond_to = Append(@, w[3].n - 1),
                                    !.M.bond_type = Append(@, w[4])]
                 IN IF Len(w) > 4 THEN Raise(h, "KeyError") ELSE h

\* the body of "for line in open(mol2_file)" on line i of the file, in the frame
\* f of read(): the record M, the section sec, and how the function has ended.
\* section_line_no counts the lines since the last section line.
Mol2ReadLine(f, ls, i) ==
    LET line == ls[i]
        heads == {h \in 1..i : ls[h].k = "section"}
        section_line_no == IF heads = {} THEN i ELSE i - SetMax(heads)
        \* section == 'MOLECULE'
        molecule(w, slno) ==
            LET n == Len(w)
            IN CASE slno = 1 -> [f EXCEPT !.M.title = w]
                 [] slno = 2 ->
                      IF \E j \in 1..(IF n < 5 THEN n ELSE 5) : ~w[j].num
                      THEN Raise(f, "ValueError")
                      ELSE [f EXCEPT !.M.no_atoms = IF n > 0 THEN w[1].n ELSE @,
                                     !.M.no_bonds = IF n > 1 THEN w[2].n ELSE @,
                                     !.M.no_residues = IF n > 2 THEN w[3].n ELSE @,
                                     !.M.no_features = IF n > 3 THEN w[4].n ELSE @,
                                     !.M.no_sets = IF n > 4 THEN w[5].n ELSE @]
                 [] slno = 3 -> [f EXCEPT !.M.type = w[1].s]
                 [] slno = 4 -> [f EXCEPT !.M.charge_type = w[1].s]
                 [] slno = 5 -> [f EXCEPT !.M.mol2_status_bits = w]
                 [] slno = 6 -> [f EXCEPT !.M.mol2_comment = w]
                 [] OTHER -> f
        \* section == 'ATOM'
        atom(w) ==
            LET n == Len(w)
            IN IF n < 6 THEN Return(f, "None")
               ELSE IF \E j \in 3..5 : ~w[j].num THEN Raise(f, "ValueError")
               ELSE LET g == [f EXCEPT !.M.atom_name = Append(@, w[2].s),
                                       !.M.atom_x = Append(@, w[3].n),
                                       !.M.atom_y = Append(@, w[4].n),
                                       !.M.atom_z = Append(@, w[5].n),
                                       !.M.atom_type = Append(@, w[6].s)]
                    IN IF n > 6 /\ ~w[7].num THEN Raise(g, "ValueError")
                       ELSE LET h == [g EXCEPT
                                         !.M.atom_resid = IF n > 6 THEN Append(@, w[7].n - 1) ELSE @,
                                         !.M.atom_resname = IF n > 7 THEN Append(@, w[8].s) ELSE @]
                            IN IF n > 8 /\ ~w[9].num THEN Raise(h, "ValueError")
                               ELSE [h EXCEPT
                                        !.M.atom_q = IF n > 8 THEN Append(@, w[9].n) ELSE @,
                                        !.M.atom_status_bit = IF n > 9 THEN Append(@, w[10]) ELSE @]
        \* section == 'SUBSTRUCTURE': every optional list is given parts[3]
        substructure(w) ==
            LET n == Len(w)
            IN IF n < 3 THEN Return(f, "None")
               ELSE LET g == [f EXCEPT !.M.residue_name = Append(@, w[2].s)]
                    IN IF ~w[3].num THEN Raise(g, "ValueError")
                       ELSE [g EXCEPT
                                !.M.residue_start = Append(@, w[3].n - 1),
                                !.M.residue_type = IF n > 3 THEN Append(@, w[4].s) ELSE @,
                                !.M.residue_dict_type = IF n > 4 THEN Append(@, w[4].s) ELSE @,
                                !.M.residue_chain = IF n > 5 THEN Append(@, w[4].s) ELSE @,
                                !.M.residue_sub_type = IF n > 6 THEN Append(@, w[4].s) ELSE @,
                                !.M.residue_inter_bonds = IF n > 7 THEN Append(@, w[4].s) ELSE @,
                                !.M.residue_status_bits = IF n > 8 THEN Append(@, w[4].s) ELSE @,
                                !.M.residue_comment = IF n > 9 THEN Append(@, w[4].s) ELSE @]
    IN CASE line.k = "blank" -> f
         [] line.k = "comment" -> [f EXCEPT !.M.description = Append(@, line)]
         [] line.k = "section" ->
              IF line.name = NoneVal THEN Return(f, "None")
              ELSE LET chk == Mol2CheckLastSection(f.sec, f.M)
                   IN IF ~chk.ok THEN Return([f EXCEPT !.M = chk.M], "False")
                      ELSE [f EXCEPT !.M = chk.M, !.sec = line.name]
         [] OTHER ->
              CASE f.sec = "MOLECULE" -> molecule(line.w, section_line_no)
                [] f.sec = "ATOM" -> atom(line.w)
                [] f.sec = "BOND" -> Mol2Bond(f, line.w)
                [] f.sec = "SUBSTRUCTURE" -> substructure(line.w)
                [] OTHER -> f

----------------------------------------------------------------------------
(* amber_parm7.read (amber_parm7.py): read_prmtop, read_rst7 and core.check. *)
(* A line of a prmtop file is a %VERSION, %FLAG or %FORMAT line (k, with the *)
(* word it carries, NoneVal when the line has no second part) or a data line *)
(* of characters c, the newline included as open() delivers it.  A string of *)
(* the file is the sequence of its characters.                               *)

\* str.strip()
Strip(s) ==
    LET ink == {i \in 1..Len(s) : s[i] \notin {" ", "\n"}}
    IN IF ink = {} THEN <<>> ELSE SubSeq(s, SetMin(ink), SetMax(ink))

\* str.split()
RECURSIVE Split(_)
Split(s) ==
    LET t == Strip(s)
        gaps == {i \in 1..Len(t) : t[i] \in {" ", "\n"}}
    IN IF t = <<>> THEN <<>>
       ELSE IF gaps = {} THEN <<t>>
       ELSE <<SubSeq(t, 1, SetMin(gaps) - 1)>> \o Split(SubSeq(t, SetMin(gaps) + 1, Len(t)))

\* [l[i:i+n].strip() for i in range(0, len(l), n)]
FixedWidth(l, n) ==
    [k \in 1..((Len(l) + n - 1) \div n) |->
        Strip(SubSeq(l, (k - 1) * n + 1, IF k * n < Len(l) THEN k * n ELSE Len(l)))]

\* int(s) of a stripped string: [ok, n], ok FALSE where int() raises ValueError
PyInt(s) ==
    LET digits == <<"0", "1", "2", "3", "4", "5", "6", "7", "8", "9">>
        neg == s # <<>> /\ s[1] = "-"
        d == IF neg THEN Tail(s) ELSE s
        val[i \in 0..Len(d)] == IF i = 0 THEN 0 ELSE 10 * val[i - 1] + IndexOf(digits, d[i])
    IN IF d = <<>> \/ \E i \in 1..Len(d) : d[i] \notin Range(digits)
       THEN [ok |-> FALSE, n |-> 0]
       ELSE [ok |-> TRUE, n |-> IF neg THEN 0 - val[Len(d)] ELSE val[Len(d)]]

\* amber_parm7.initialize: the keys of core.initialize and of the PARM7 adapter
\* that read_prmtop and read_rst7 use
Parm7Initialize ==
    [(CoreInitialize @@ Parm7Defaults
      @@ [atom_vx |-> <<>>, atom_vy |-> <<>>, atom_vz |-> <<>>,
          box_alpha |-> 90, box_beta |-> 90, box_gamma |-> 90,
          atom_atomic_no |-> <<>>, atom_no_excluded |-> <<>>,
          parm_version_string |-> NoneVal, PARM |-> [p \in 0..31 |-> 0]])
     EXCEPT !.source_format = "AMBER PARM7"]

\* the index without abs(): a negative token gives a negative index
Parm7AtomIndex_signed(t) == t \div 3

\* int(abs(int(t)) / 3): the atom index a bond, angle or dihedral token names
Parm7AtomIndex(t) == (IF t < 0 THEN 0 - t ELSE t) \div 3

\* process_last_section(MOL, section, lines, sformat) in a frame [M, ret, err]:
\* ret is "True" or "False" as returned, "raise" with the exception in err.  The
\* numbers of the files read here are integers, so float() is int().
Parm7_process_last_section(M, sec, lns, sformat) ==
    LET f == Running(M)
        fields(l) == IF sformat = "10I8"
                     THEN SelectSeq(FixedWidth(l, 8), LAMBDA t : t # <<>>)
                     ELSE Split(l)
        all[i \in 0..Len(lns)] == IF i = 0 THEN <<>> ELSE all[i - 1] \o fields(lns[i])
        again[i \in 0..Len(lns)] ==
            IF i = 0 THEN <<>> ELSE again[i - 1] \o FixedWidth(lns[i], 4)
        \* the branches of the if/elif chain over the section name: items are the
        \* fields of the lines, n their number, ints their values under int(), good
        \* the number of items before the first one that int() refuses, and refit
        \* the items of the lines cut again every 4 characters
        chain(items, n, ints, good, refit) ==
            LET \* a section of one value per item, appended to a list of the record
                \* when the count (-1: none is required) is met; the values are the
                \* items themselves (off = -1) or int(item) - off
                list(key, off, count) ==
                    IF count # -1 /\ n # count THEN Return(f, "False")
                    ELSE IF off = -1 THEN Return([f EXCEPT !.M[key] = @ \o items], "True")
                    ELSE LET g == [f EXCEPT !.M[key] = @ \o [i \in 1..good |-> ints[i] - off]]
                         IN IF good < n THEN Raise(g, "ValueError") ELSE Return(g, "True")
                \* a section of records of w items, w - 1 atom tokens and a 1-based
                \* index: a record is stored once all its items are converted
                recs(keys) ==
                    LET w == Len(keys)
                        whole == good \div w
                        col(j) == [r \in 1..whole |->
                                     LET t == ints[(r - 1) * w + j]
                                     IN IF j = w THEN t - 1 ELSE Parm7AtomIndex(t)]
                        g == [f EXCEPT !.M = [k \in DOMAIN M |->
                                                IF \E j \in 1..w : keys[j] = k
                                                THEN M[k] \o col(CHOOSE j \in 1..w : keys[j] = k)
                                                ELSE M[k]]]
                    IN IF good < n THEN Raise(g, "ValueError")
                       ELSE IF n % w # 0 THEN Raise(g, "IndexError")
                       ELSE Return(g, "True")
            IN CASE sec = NoneVal -> Return(f, "True")
                 [] sec = "TITLE" ->
                      IF lns = <<>> THEN Raise(f, "IndexError")
                      ELSE Return([f EXCEPT !.M.title = lns[1]], "True")
                 [] sec = "POINTERS" ->
                      IF good < n /\ good < 32 THEN Raise(f, "ValueError")
                      ELSE LET P == [p \in 0..31 |-> IF p < n THEN ints[p + 1] ELSE M.PARM[p]]
                           IN Return([f EXCEPT !.M.PARM = P,
                                               !.M.PARM_NTYPES = P[1],
                                               !.M.no_atoms = P[0],
                                               !.M.no_bonds = P[12] + P[2],
                                               !.M.no_angles = P[4] + P[5],
                                               !.M.no_diheds = P[6] + P[7],
                                               !.M.no_residues = P[11],
                                               !.M.no_atom_types = P[18]], "True")
                 [] sec = "ATOM_NAME" ->
                      IF n = M.no_atoms THEN Return([f EXCEPT !.M.atom_name = @ \o items], "True")
                      ELSE IF Len(refit) # M.no_atoms THEN Return(f, "False")
                      ELSE Return([f EXCEPT !.M.atom_name = @ \o refit], "True")
                 \* float(q) / 18.2223: atom_q is kept in the unit of the file, 1/18.2223 e
                 [] sec = "CHARGE" -> list("atom_q", 0, M.no_atoms)
                 [] sec = "ATOMIC_NUMBER" -> list("atom_atomic_no", 0, M.no_atoms)
                 [] sec = "MASS" -> list("atom_mass", 0, M.no_atoms)
                 [] sec = "ATOM_TYPE_INDEX" ->
                      list("pair_ff_index", 1, M.no_atoms)
                 [] sec = "NUMBER_EXCLUDED_ATOMS" -> list("atom_no_excluded", 0, M.no_atoms)
                 [] sec = "NONBONDED_PARM_INDEX" ->
                      list("parm7_lj_index", 0, M.PARM_NTYPES * M.PARM_NTYPES)
                 [] sec = "RESIDUE_LABEL" -> list("residue_name", -1, M.no_residues)
                 [] sec = "RESIDUE_POINTER" ->
                      list("residue_start", 1, M.no_residues)
                 [] sec \in {"BONDS_INC_HYDROGEN", "BONDS_WITHOUT_HYDROGEN"} ->
                      recs(<<"bond_from", "bond_to", "bond_ff_index">>)
                 [] sec \in {"ANGLES_INC_HYDROGEN", "ANGLES_WITHOUT_HYDROGEN"} ->
                      recs(<<"angle_a", "angle_b", "angle_c", "angle_ff_index">>)
                 [] sec \in {"DIHEDRALS_INC_HYDROGEN", "DIHEDRALS_WITHOUT_HYDROGEN"} ->
                      recs(<<"dihed_a", "dihed_b", "dihed_c", "dihed_d", "dihed_ff_index">>)
                 [] sec = "AMBER_ATOM_TYPE" ->
                      IF n # M.no_atoms THEN Return(f, "False")
                      ELSE LET seen[i \in 0..n] ==
                                   IF i = 0 THEN M.unique_atom_types
                                   ELSE IF items[i] \in Range(seen[i - 1]) THEN seen[i - 1]
                                   ELSE Append(seen[i - 1], items[i])
                           IN Return([f EXCEPT !.M.atom_type = @ \o items,
                                               !.M.unique_atom_types = seen[n]], "True")
                 [] sec = "BOND_FORCE_CONSTANT" -> list("FF_bond_k", 0, -1)
                 [] sec = "BOND_EQUIL_VALUE" -> list("FF_bond_eq", 0, -1)
                 [] sec = "ANGLE_FORCE_CONSTANT" -> list("FF_angle_k", 0, -1)
                 [] sec = "ANGLE_EQUIL_VALUE" -> list("FF_angle_eq", 0, -1)
                 [] sec = "DIHEDRAL_FORCE_CONSTANT" -> list("FF_dihed_k", 0, -1)
                 [] sec = "DIHEDRAL_PERIODICITY" -> list("FF_dihed_periodicity", 0, -1)
                 [] sec = "DIHEDRAL_PHASE" -> list("FF_dihed_phase", 0, -1)
                 [] sec = "LENNARD_JONES_ACOEF" -> list("parm7_lj_acoeff", 0, -1)
                 [] sec = "LENNARD_JONES_BCOEF" -> list("parm7_lj_bcoeff", 0, -1)
                 [] OTHER -> Return(f, "True")
        found == all[Len(lns)]
    IN chain(found, Len(found), [i \in 1..Len(found) |-> PyInt(found[i]).n],
             SetMin({i \in 1..Len(found) : ~PyInt(found[i]).ok} \cup {Len(found) + 1}) - 1,
             again[Len(lns)])

\* read_rst7(MOL, rst_file) in a frame [M, ret, err].  A line of the restart file
\* is blank or the words w of line.split(); the words of the files read here are
\* numbers, which float() and int() accept.
ReadRst7(M, file) ==
    LET inked == {i \in 1..Len(file) : file[i].k # "blank"}
        parts == file[2].w
        no_atoms == IF 2 \in inked THEN parts[1].n ELSE 0
        timed == IF 2 \in inked
                 THEN (IF Len(parts) > 2 THEN [temp |-> parts[3].n] ELSE <<>>)
                      @@ (IF Len(parts) > 1 THEN [time |-> parts[2].n] ELSE <<>>) @@ M
                 ELSE M
        all[i \in 0..Len(file)] ==
            IF i = 0 THEN <<>>
            ELSE IF i > 2 /\ i \in inked THEN all[i - 1] \o file[i].w ELSE all[i - 1]
        items == all[Len(file)]
        T == Len(items)
        last_line == file[SetMax(inked)].w
        triple(from, to, j) == [i \in 1..((to - from) \div 3) |-> items[from + 3 * (i - 1) + j].n]
        placed == [timed EXCEPT !.atom_x = @ \o triple(0, 3 * no_atoms, 1),
                                !.atom_y = @ \o triple(0, 3 * no_atoms, 2),
                                !.atom_z = @ \o triple(0, 3 * no_atoms, 3)]
        moving == IF T >= 6 * no_atoms
                  THEN [placed EXCEPT
                           !.atom_vx = @ \o triple(3 * no_atoms, 6 * no_atoms, 1),
                           !.atom_vy = @ \o triple(3 * no_atoms, 6 * no_atoms, 2),
                           !.atom_vz = @ \o triple(3 * no_atoms, 6 * no_atoms, 3)]
                  ELSE placed
        sized == T \in {3 * no_atoms + 3, 6 * no_atoms + 3, 3 * no_atoms + 6, 6 * no_atoms + 6}
        angled == T \in {3 * no_atoms + 6, 6 * no_atoms + 6}
        \* the assignments from last_line.split() made before parts[k] fails
        k == Len(last_line)
        boxed == [moving EXCEPT !.box_x = IF k > 0 THEN last_line[1].n ELSE @,
                                !.box_y = IF k > 1 THEN last_line[2].n ELSE @,
                                !.box_z = IF k > 2 THEN last_line[3].n ELSE @]
        turned == [boxed EXCEPT !.box_alpha = IF k > 3 THEN last_line[4].n ELSE @,
                                !.box_beta = IF k > 4 THEN last_line[5].n ELSE @,
                                !.box_gamma = IF k > 5 THEN last_line[6].n ELSE @]
    IN IF 2 \in inked /\ no_atoms # M.no_atoms THEN Return(Running(timed), "False")
       ELSE IF T < 3 * no_atoms THEN Return(Running(timed), "False")
       ELSE IF ~sized THEN Return(Running(moving), "MOL")
       ELSE IF k < 3 THEN Raise(Running(boxed), "IndexError")
       ELSE IF ~angled THEN Return(Running(boxed), "MOL")
       ELSE IF k < 6 THEN Raise(Running(turned), "IndexError")
       ELSE Return(Running(turned), "MOL")

\* check without the residue counts
Check_noResidues(M) == CheckAtomsOk(M) /\ CheckBondsOk(M)

\* core.check
Check(M) ==
    /\ CheckAtomsOk(M)
    /\ CheckBondsOk(M)
    /\ M.no_residues = Len(M.residue_name) /\ M.no_residues = Len(M.residue_start)

----------------------------------------------------------------------------
(* AttrDict (utils.py): the dict with attribute access that build() returns. *)
(* A key is [str, c]: a string of the characters c, or an object that is no   *)
(* string.  The contents are the sequence of [k, v] items in insertion order. *)

Str(c) == [str |-> TRUE, c |-> c]

\* names of dir({}) among the keys assigned here: keys, get, items, __init__
DictNamespace ==
    {<<"k", "e", "y", "s">>, <<"g", "e", "t">>, <<"i", "t", "e", "m", "s">>,
     <<"_", "_", "i", "n", "i", "t", "_", "_">>}

\* the attributes normal lookup finds on an AttrDict besides those of dir({}):
\* __module__, __dict__ and __weakref__ of the class statement, and __getattr__
ClassNamespace ==
    {<<"_", "_", "m", "o", "d", "u", "l", "e", "_", "_">>,
     <<"_", "_", "d", "i", "c", "t", "_", "_">>,
     <<"_", "_", "w", "e", "a", "k", "r", "e", "f", "_", "_">>,
     <<"_", "_", "g", "e", "t", "a", "t", "t", "r", "_", "_">>}

Letters ==
    {"a", "b", "c", "d", "e", "f", "g", "h", "i", "j", "k", "l", "m", "n", "o", "p", "q",
     "r", "s", "t", "u", "v", "w", "x", "y", "z", "A", "B", "C", "D", "E", "F", "G", "H",
     "I", "J", "K", "L", "M", "N", "O", "P", "Q", "R", "S", "T", "U", "V", "W", "X", "Y",
     "Z"}

Digits == {"0", "1", "2", "3", "4", "5", "6", "7", "8", "9"}

\* re.compile(r'^[a-zA-Z_][a-zA-Z_0-9]*$').search(key): $ matches at the end of
\* the string and also just before a newline that ends it
ReSearch(c) ==
    LET word(s) == /\ s # <<>>
                   /\ s[1] \in Letters \cup {"_"}
                   /\ \A i \in 1..Len(s) : s[i] \in Letters \cup Digits \cup {"_"}
    IN word(c) \/ (c # <<>> /\ Last(c) = "\n" /\ word(Front(c)))

\* dict.__getitem__ and dict.__setitem__ on the contents
DictHas(d, key) == \E i \in 1..Len(d) : d[i].k = key

DictGet(d, key) == d[CHOOSE i \in 1..Len(d) : d[i].k = key].v

\* AttrDict.__setitem__(key, value), which __setattr__ calls, in a frame [M, ret, err]
AttrDict_setitem(f, key, value) ==
    IF f.ret # "run" THEN f
    ELSE IF key.str /\ key.c \in DictNamespace THEN Raise(f, "KeyError")
    ELSE IF ~key.str THEN Raise(f, "KeyError")
    ELSE IF ~ReSearch(key.c) THEN Raise(f, "KeyError")
    ELSE [f EXCEPT !.M = IF DictHas(@, key)
                         THEN [i \in 1..Len(@) |->
                                  IF @[i].k = key THEN [k |-> key, v |-> value] ELSE @[i]]
                         ELSE Append(@, [k |-> key, v |-> value])]

\* AttrDict.__init__(d) on the new, empty dict: one __setattr__ per item of d
RECURSIVE AttrDict_init(_, _)
AttrDict_init(f, d) ==
    IF d = <<>> THEN Return(f, "None")
    ELSE AttrDict_init(AttrDict_setitem(f, d[1].k, d[1].v), Tail(d))

\* getattr(self, name): normal lookup finds the attributes of dict and of the
\* class (written "<attribute>"); __getattr__ is called for the other names only
\* and returns self[name]
AttrDict_getattr(d, key) ==
    IF key.c \in DictNamespace \cup ClassNamespace THEN Return(Running(d), "<attribute>")
    ELSE IF DictHas(d, key) THEN Return(Running(d), DictGet(d, key))
    ELSE Raise(Running(d), "KeyError")

----------------------------------------------------------------------------
(* The Writers (openmol.py, lammps_full.py, lammps_qmag.py, tripos_mol2.py). *)
(* A running write() is a frame [M, out, ret, err]: M the record the Writer  *)
(* holds (the caller's object, not a copy), out the lines written to self.fp *)
(* so far.  A title is the sequence of the words and separators of the       *)
(* string.                                                                   *)

\* BOX_BUFFER of lammps_full.py
BOX_BUFFER == 3

Writing(M) == [M |-> M, out |-> <<>>, ret |-> "run", err |-> NoErr]

Emit(f, lns) == IF f.ret = "run" THEN [f EXCEPT !.out = @ \o lns] ELSE f

\* "for i in range(count)" reading lists of the lengths lens: the passes made
\* before a list ends
RowCount(count, lens) == SetMin({IF count > 0 THEN count ELSE 0} \cup lens)

\* the loop has written rows; it fails on the index of the first row missing
Rows(f, count, rows) ==
    IF f.ret # "run" THEN f
    ELSE IF Len(rows) < count THEN Raise(Emit(f, rows), "IndexError")
    ELSE Emit(f, rows)

\* the words "%s" % title leaves on the line
TitleWords(title) == SelectSeq(title, LAMBDA t : t \notin {W(" "), W("\n")})

\* Writer.title of lammps_full.py: title.replace("\n", " ") is assigned to the
\* record, then written
LmpWriteTitle(f) ==
    IF f.ret # "run" THEN f
    ELSE IF f.M.title = NoTitle THEN Raise(f, "AttributeError")
    ELSE LET replaced == [i \in 1..Len(f.M.title) |->
                             IF f.M.title[i] = W("\n") THEN W(" ") ELSE f.M.title[i]]
         IN Emit([f EXCEPT !.M.title = replaced],
                 <<LmpText(TitleWords(replaced) \o <<W("(by"), W("OpenMOL)")>>), LmpBlank>>)

\* math.cos of a phase given as a fraction of pi, in thousandths (cos(pi/2) is
\* 6.1e-17 in floating point)
Cos1000(p) ==
    CASE p = "0" -> 1000 [] p = "pi/3" -> 500 [] p = "pi/2" -> 0
      [] p = "2pi/3" -> -500 [] p = "pi" -> -1000

\* the phase coefficient Writer.dihed_coeffs writes: phase = int(cos), int()
\* truncating toward zero, then "if phase == 0: 1 else: -1"
DihedPhase(p) ==
    LET c == Cos1000(p)
        phase == IF c >= 0 THEN c \div 1000 ELSE -((-c) \div 1000)
    IN IF phase = 0 THEN 1 ELSE -1

\* the bounds with the buffer on every axis, whatever the stored box length
AxisBounds_alwaysBuffered(box, coords) ==
    IF coords = <<>> THEN <<>>
    ELSE <<SetMin(Range(coords)) - BOX_BUFFER, SetMax(Range(coords)) + BOX_BUFFER>>

\* one axis of Writer.box_info: <<lo, hi>>, or <<>> where min() of an empty
\* coordinate list fails
AxisBounds(box, coords) ==
    IF box # 0 THEN <<0, box>>
    ELSE IF coords = <<>> THEN <<>>
    ELSE <<SetMin(Range(coords)) - BOX_BUFFER, SetMax(Range(coords)) + BOX_BUFFER>>

\* counts(), types(), box_info(), masses() and the four coeffs methods, in the
\* order Writer.write of lammps_full.py calls them after title().  A section is
\* headed "\n<keyword>\n\n"; min() of an empty coordinate list fails.
LmpWriteHead(f) ==
    LET M == f.M
        header(words) == <<LmpBlank, LmpText(words), LmpBlank>>
        x == AxisBounds(M.box_x, M.atom_x)
        y == AxisBounds(M.box_y, M.atom_y)
        z == AxisBounds(M.box_z, M.atom_z)
        counts ==
            Emit(f, <<LmpText(<<N(M.no_atoms), W("atoms")>>),
                      LmpText(<<N(M.no_bonds), W("bonds")>>),
                      LmpText(<<N(M.no_angles), W("angles")>>),
                      LmpText(<<N(M.no_diheds), W("dihedrals")>>),
                      LmpText(<<N(0), W("impropers")>>), LmpBlank>>)
        types ==
            Emit(counts, <<LmpText(<<N(M.no_atom_types), W("atom"), W("types")>>),
                           LmpText(<<N(M.no_bond_types), W("bond"), W("types")>>),
                           LmpText(<<N(M.no_angle_types), W("angle"), W("types")>>),
                           LmpText(<<N(M.no_dihed_types), W("dihedral"), W("types")>>),
                           LmpBlank>>)
        box_info ==
            IF types.ret # "run" THEN types
            ELSE IF x = <<>> \/ y = <<>> \/ z = <<>> THEN Raise(types, "ValueError")
            ELSE Emit(types, <<LmpText(<<N(x[1]), N(x[2]), W("xlo"), W("xhi")>>),
                               LmpText(<<N(y[1]), N(y[2]), W("ylo"), W("yhi")>>),
                               LmpText(<<N(z[1]), N(z[2]), W("zlo"), W("zhi")>>)>>)
        masses ==
            Rows(Emit(box_info, header(<<W("Masses")>>)), M.no_atom_types,
                 [i \in 1..RowCount(M.no_atom_types, {Len(M.unique_atom_mass),
                                                      Len(M.unique_atom_types)}) |->
                     LmpNoted(<<N(i), N(M.unique_atom_mass[i])>>, M.unique_atom_types[i])])
        pair_coeffs ==
            Rows(Emit(masses, header(<<W("Pair"), W("Coeffs")>>)), M.no_atom_types,
                 [i \in 1..RowCount(M.no_atom_types, {Len(M.FF_lj_epsilon), Len(M.FF_lj_sigma),
                                                      Len(M.unique_atom_types)}) |->
                     LmpNoted(<<N(i), N(M.FF_lj_epsilon[i]), N(M.FF_lj_sigma[i])>>,
                              M.unique_atom_types[i])])
        bond_coeffs ==
            Rows(Emit(pair_coeffs, header(<<W("Bond"), W("Coeffs")>>)), M.no_bond_types,
                 [i \in 1..RowCount(M.no_bond_types, {Len(M.FF_bond_k), Len(M.FF_bond_eq)}) |->
                     LmpText(<<N(i), N(M.FF_bond_k[i]), N(M.FF_bond_eq[i])>>)])
        angle_coeffs ==
            Rows(Emit(bond_coeffs, header(<<W("Angle"), W("Coeffs")>>)), M.no_angle_types,
                 [i \in 1..RowCount(M.no_angle_types, {Len(M.FF_angle_k), Len(M.FF_angle_eq)}) |->
                     LmpText(<<N(i), N(M.FF_angle_k[i]), N([degrees |-> M.FF_angle_eq[i]])>>)])
    IN Rows(Emit(angle_coeffs, header(<<W("Dihedral"), W("Coeffs")>>)), M.no_dihed_types,
            [i \in 1..RowCount(M.no_dihed_types, {Len(M.FF_dihed_phase),
                                                  Len(M.FF_dihed_periodicity),
                                                  Len(M.FF_dihed_k)}) |->
                LmpText(<<N(i), N(M.FF_dihed_k[i]), N(DihedPhase(M.FF_dihed_phase[i])),
                          N(M.FF_dihed_periodicity[i])>>)])

\* Writer.atoms: "id resid typeid charge x y z # type"; the Writer of
\* lammps_qmag.py (qmag) writes the qm value after the coordinates
LmpWriteAtoms(f, qmag) ==
    LET M == f.M
        lens == {Len(M.atom_resid), Len(M.atom_name), Len(M.atom_x), Len(M.atom_y),
                 Len(M.atom_z), Len(M.atom_type_index), Len(M.atom_q), Len(M.atom_type)}
                \cup (IF qmag THEN {Len(M.atom_qm)} ELSE {})
        style == IF qmag THEN "atom_style_qmag" ELSE "atom_style_full"
    IN Rows(Emit(f, <<LmpBlank, LmpNoted(<<W("Atoms")>>, style), LmpBlank>>), M.no_atoms,
            [i \in 1..RowCount(M.no_atoms, lens) |->
                LmpNoted(<<N(i), N(M.atom_resid[i] + 1), N(M.atom_type_index[i] + 1),
                           N(M.atom_q[i]), N(M.atom_x[i]), N(M.atom_y[i]), N(M.atom_z[i])>>
                         \o (IF qmag THEN <<N(M.atom_qm[i])>> ELSE <<>>),
                         M.atom_type[i])])

\* bonds() "id type from to", angles() "id type a b c", diheds()
\* "id type a b c d", then super().write(): close(), and None is returned
LmpWriteTail(f) ==
    LET M == f.M
        bonds ==
            Rows(Emit(f, <<LmpBlank, LmpText(<<W("Bonds")>>), LmpBlank>>), M.no_bonds,
                 [i \in 1..RowCount(M.no_bonds, {Len(M.bond_from), Len(M.bond_to),
                                                 Len(M.bond_ff_index)}) |->
                     LmpText(<<N(i), N(M.bond_ff_index[i] + 1), N(M.bond_from[i] + 1),
                               N(M.bond_to[i] + 1)>>)])
        angles ==
            Rows(Emit(bonds, <<LmpBlank, LmpText(<<W("Angles")>>), LmpBlank>>), M.no_angles,
                 [i \in 1..RowCount(M.no_angles, {Len(M.angle_a), Len(M.angle_b),
                                                  Len(M.angle_c), Len(M.angle_ff_index)}) |->
                     LmpText(<<N(i), N(M.angle_ff_index[i] + 1), N(M.angle_a[i] + 1),
                               N(M.angle_b[i] + 1), N(M.angle_c[i] + 1)>>)])
        diheds ==
            Rows(Emit(angles, <<LmpBlank, LmpText(<<W("Dihedrals")>>), LmpBlank>>),
                 M.no_diheds,
                 [i \in 1..RowCount(M.no_diheds, {Len(M.dihed_a), Len(M.dihed_b),
                                                  Len(M.dihed_c), Len(M.dihed_d),
                                                  Len(M.dihed_ff_index)}) |->
                     LmpText(<<N(i), N(M.dihed_ff_index[i] + 1), N(M.dihed_a[i] + 1),
                               N(M.dihed_b[i] + 1), N(M.dihed_c[i] + 1),
                               N(M.dihed_d[i] + 1)>>)])
    IN Return(diheds, "None")

\* Writer.write of lammps_full.py
LmpWrite(M) == LmpWriteTail(LmpWriteAtoms(LmpWriteHead(LmpWriteTitle(Writing(M))), FALSE))

\* Writer.write of lammps_qmag.py: False, the file left as it is, when the qm
\* values are missing, empty or not one per atom; its title() only reads the title
QmagWrite(M) ==
    IF "atom_qm" \notin DOMAIN M \/ M.atom_qm = <<>> THEN Return(Writing(M), "False")
    ELSE IF Len(M.atom_qm) # M.no_atoms THEN Return(Writing(M), "False")
    ELSE LmpWriteTail(LmpWriteAtoms(LmpWriteHead(
             Emit(Writing(M), <<LmpText(TitleWords(M.title)), LmpBlank>>)), TRUE))

\* Writer.write of tripos_mol2.py: molecule(), atoms(), bonds(), substructures(),
\* then super().write().  atoms() looks the residue name up with the atom's
\* residue id; bonds() replaces the type in the dictionary of the line, not in
\* the record; substructures() reads atom_resid[i] for every residue i.
Mol2Write(M) ==
    LET atomsOk ==
            {n \in 0..SetMin({Len(M.atom_resid), Len(M.atom_name), Len(M.atom_x),
                              Len(M.atom_y), Len(M.atom_z), Len(M.atom_type), Len(M.atom_q)}) :
                \A i \in 1..n : PyValid(M.residue_name, M.atom_resid[i])}
        molecule ==
            Emit(Writing(M),
                 <<LmpText(<<W("@<TRIPOS>MOLECULE")>>), LmpText(TitleWords(M.title)),
                   LmpText(<<N(M.no_atoms), N(M.no_bonds), N(M.no_residues), N(0), N(0)>>),
                   LmpText(<<W(M.type)>>), LmpText(<<W(M.charge_type)>>), LmpBlank>>)
        atoms ==
            Rows(Emit(molecule, <<LmpText(<<W("@<TRIPOS>ATOM")>>)>>), M.no_atoms,
                 [i \in 1..RowCount(M.no_atoms, {SetMax(atomsOk)}) |->
                     LmpText(<<N(i), W(M.atom_name[i]), N(M.atom_x[i]), N(M.atom_y[i]),
                               N(M.atom_z[i]), W(M.atom_type[i]), N(M.atom_resid[i] + 1),
                               W(PyGet(M.residue_name, M.atom_resid[i])), N(M.atom_q[i])>>)])
        bonds ==
            Rows(Emit(atoms, <<LmpText(<<W("@<TRIPOS>BOND")>>)>>), M.no_bonds,
                 [i \in 1..RowCount(M.no_bonds, {Len(M.bond_from), Len(M.bond_to),
                                                 Len(M.bond_type)}) |->
                     LmpText(<<N(i), N(M.bond_from[i] + 1), N(M.bond_to[i] + 1),
                               W(M.bond_type[i])>>)])
        substructures ==
            Rows(Emit(bonds, <<LmpText(<<W("@<TRIPOS>SUBSTRUCTURE")>>)>>), M.no_residues,
                 [i \in 1..RowCount(M.no_residues, {Len(M.atom_resid), Len(M.residue_name),
                                                    Len(M.residue_start),
                                                    Len(M.residue_type)}) |->
                     LmpText(<<N(i), W(M.residue_name[i]), N(M.residue_start[i] + 1),
                               W(M.residue_type[i])>>)])
    IN Return(substructures, "None")

----------------------------------------------------------------------------
(* Mol2Writer (mol2.py): the writer of the array-based molecule.  strc is    *)
(* the list of the bond slots of each atom, resid the column Strc.ResId.     *)

\* bonds() writing every partner of every row: the test on added left out
Mol2Writer_bonds_everyEntry(f) ==
    LET strc == f.M.strc
        partners(i) == SortedSeq(Range(strc[i]))
        count(i, j) == Cardinality({k \in 1..Len(strc[i]) : strc[i][k] = j})
        found[i \in 0..Len(strc)] ==
            IF i = 0 THEN <<>>
            ELSE found[i - 1] \o [m \in 1..Len(partners(i)) |-> <<i - 1, partners(i)[m]>>]
        pairs == found[Len(strc)]
    IN Emit(f, <<LmpText(<<W("@<TRIPOS>BOND")>>)>>
               \o [k \in 1..Len(pairs) |->
                      LmpText(<<N(k), N(pairs[k][1] + 1), N(pairs[k][2] + 1),
                                N(count(pairs[k][1] + 1, pairs[k][2]))>>)])

\* Mol2Writer.bonds: for every atom i, np.unique gives the partners j in the
\* row of i in ascending order, each with the count c of its entries; a pair
\* already in added, in either order, is passed over
Mol2Writer_bonds(f) ==
    LET strc == f.M.strc
        partners(i) == SortedSeq(Range(strc[i]))
        count(i, j) == Cardinality({k \in 1..Len(strc[i]) : strc[i][k] = j})
        found[i \in 0..Len(strc)] ==
            IF i = 0 THEN <<>>
            ELSE found[i - 1] \o [m \in 1..Len(partners(i)) |-> <<i - 1, partners(i)[m]>>]
        pairs == found[Len(strc)]
        added[k \in 0..Len(pairs)] ==
            IF k = 0 THEN <<>>
            ELSE IF pairs[k] \in Range(added[k - 1])
                    \/ <<pairs[k][2], pairs[k][1]>> \in Range(added[k - 1])
            THEN added[k - 1]
            ELSE Append(added[k - 1], pairs[k])
        written == added[Len(pairs)]
    IN Emit(f, <<LmpText(<<W("@<TRIPOS>BOND")>>)>>
               \o [k \in 1..Len(written) |->
                      LmpText(<<N(k), N(written[k][1] + 1), N(written[k][2] + 1),
                                N(count(written[k][1] + 1, written[k][2]))>>)])

\* Mol2Writer.write_file: molecule(), atoms(), bonds(), substructures().
\* molecule() counts the partners of every row, halved, and the residue ids
\* (np.unique); a record without atoms has no column to count.  atoms() needs a
\* residue id on every atom: int(nan) raises ValueError.  substructures()
\* writes a line wherever the residue id differs from the one before it.
Mol2Writer_write_file(M) ==
    LET n == Len(M.info)
        meta(key, default) == IF key = NoTitle THEN <<W(default)>> ELSE key
        total_bonds ==
            SeqSum([i \in 1..n |-> Cardinality(Range(M.strc[i]))]) \div 2
        molecule ==
            IF n = 0
            THEN Raise(Emit(Writing(M), <<LmpText(<<W("@<TRIPOS>MOLECULE")>>)>>),
                       "IndexError")
            ELSE Emit(Writing(M),
                      <<LmpText(<<W("@<TRIPOS>MOLECULE")>>),
                        LmpText(meta(M.title, "Molecule")),
                        LmpText(<<N(n), N(total_bonds), N(Cardinality(Range(M.resid))),
                                  N(0), N(0)>>),
                        LmpText(meta(M.mol2_type, "SMALL")),
                        LmpText(meta(M.charge_type, "USER_CHARGES")), LmpBlank>>)
        good == SetMin({i \in 1..n : ~M.resid[i].num} \cup {n + 1}) - 1
        rows == [i \in 1..good |->
                    LmpText(<<N(i), W(M.info[i][1]), N(M.crds[i][1]), N(M.crds[i][2]),
                              N(M.crds[i][3]), W(M.info[i][2]), N(M.resid[i].n + 1),
                              M.info[i][4], M.info[i][3]>>)]
        atoms ==
            LET f == Emit(molecule, <<LmpText(<<W("@<TRIPOS>ATOM")>>)>> \o rows)
            IN IF f.ret = "run" /\ good < n THEN Raise(f, "ValueError") ELSE f
        starts == {i \in 1..n : i = 1 \/ ~M.resid[i].num \/ M.resid[i] # M.resid[i - 1]}
        roots == SortedSeq(starts)
        substructures(f) ==
            Emit(f, <<LmpText(<<W("@<TRIPOS>SUBSTRUCTURE")>>)>>
                    \o [k \in 1..Len(roots) |->
                           LmpText(<<N(k), M.info[roots[k]][4], N(roots[k]),
                                     W("RESIDUE")>>)])
    IN Return(substructures(Mol2Writer_bonds(atoms)), "None")

----------------------------------------------------------------------------
(* Inputs *)

\* the lines of a PDB file
PDBLines ==
    {[k |-> "blank"]}
    \cup {[k |-> "REMARK", tag |-> "note", cols |-> FALSE, txt |-> "note"]}
    \cup {[k |-> "REMARK", tag |-> "CONECT", cols |-> FALSE, txt |-> "CONECT",
           from |-> b[1], others |-> <<[to |-> b[2], ty |-> "1", tac |-> 0]>>]
            : b \in {<<1, 2>>, <<2, 1>>}}
    \cup {[k |-> "REMARK", tag |-> t, cols |-> FALSE, txt |-> t] : t \in {"RESCON", "SEGRNG"}}
    \cup {[k |-> "CRYST1", tag |-> "10.0", cols |-> FALSE, txt |-> "", a |-> 10, b |-> 10,
           c |-> 10]}
    \cup {[k |-> "ATOM", tag |-> "serial", cols |-> TRUE, txt |-> "", name |-> "CA",
           element |-> "C", resname |-> "ALA", resSeq |-> r, x |-> 0, y |-> 0,
           z |-> 0] : r \in 1..2}
    \cup {[k |-> "TER", tag |-> "", cols |-> FALSE, txt |-> ""]}
    \cup {[k |-> "END", tag |-> "", cols |-> FALSE, txt |-> ""]}

\* the residue ids of the atoms of a record given to PDB.build (the reader stores
\* the file's number minus 1, so a file's residue 0 is -1)
ResidVals == (-1)..MaxResid

\* a record holding atoms with the residue ids rs
PDBRecord(rs) ==
    [PDBInitialize EXCEPT !.atom_resid = rs,
                          !.atom_name = [i \in 1..Len(rs) |-> "CA"],
                          !.atom_type = [i \in 1..Len(rs) |-> "C"],
                          !.atom_resname = [i \in 1..Len(rs) |-> "ALA"],
                          !.atom_x = [i \in 1..Len(rs) |-> 0],
                          !.atom_y = [i \in 1..Len(rs) |-> 0],
                          !.atom_z = [i \in 1..Len(rs) |-> 0],
                          !.atom_q = [i \in 1..Len(rs) |-> 0]]

NoBuild ==
    /\ adapter = <<>>
    /\ hashseed = <<>>
    /\ first = NoneVal
    /\ given = NoneVal
    /\ ret = "none"
    /\ fp = "none"

\* the atom type names of the records given to build()
AtomTypes == {"CT", "HC"}

\* the orders a process can iterate a set of these names in
HashOrders ==
    {h \in [1..Cardinality(AtomTypes) -> AtomTypes] :
        \A i, j \in 1..Cardinality(AtomTypes) : h[i] = h[j] => i = j}

\* the distinct elements of s in order of first occurrence
RECURSIVE FirstOccurrence(_)
FirstOccurrence(s) ==
    IF s = <<>> THEN <<>>
    ELSE LET rest == FirstOccurrence(Front(s))
         IN IF Last(s) \in Range(rest) THEN rest ELSE Append(rest, Last(s))

ResNames == <<"ALA", "GLY", "SER", "THR", "VAL", "LEU">>

ResName(r) == ResNames[((r + 1) % Len(ResNames)) + 1]

\* the fields every record of n atoms with the types at carries
AtomsRecord(n, at) ==
    [(CoreInitialize @@ Parm7Defaults @@ LammpsDefaults @@ Unbuilt) EXCEPT
        !.no_atoms = n,
        !.atom_name = [i \in 1..n |-> "A"],
        !.atom_x = [i \in 1..n |-> 0],
        !.atom_y = [i \in 1..n |-> 0],
        !.atom_z = [i \in 1..n |-> 0],
        !.atom_q = [i \in 1..n |-> 0],
        !.atom_type = at,
        !.atom_mass = [i \in 1..n |-> IF at[i] = "CT" THEN 12 ELSE 1],
        !.unique_atom_types = FirstOccurrence(at)]

\* the record amber_parm7.read_prmtop leaves for a one-residue prmtop of n atoms:
\* NATYP and NTYPES are pointers of the file, the type names come in file order,
\* no per-atom residue info and no atom_type_index are stored;
\* NONBONDED_PARM_INDEX is the NTYPES*NTYPES table of 1-based positions in the
\* triangular coefficient lists
PrmtopRecord(n, at, natyp, ntypes, ab) ==
    [AtomsRecord(n, at) EXCEPT
        !.source_format = "AMBER PARM7",
        !.keys = {"parm7"},
        !.no_atom_types = natyp,
        !.PARM_NTYPES = ntypes,
        !.pair_ff_index = [i \in 1..n |-> IndexOf(FirstOccurrence(at), at[i]) % ntypes],
        !.parm7_lj_index =
            [p \in 1..(ntypes * ntypes) |->
                LET i == (p - 1) \div ntypes
                    j == (p - 1) % ntypes
                    hi == IF i > j THEN i ELSE j
                    lo == IF i > j THEN j ELSE i
                IN (hi * (hi + 1)) \div 2 + lo + 1],
        !.parm7_lj_acoeff = [k \in 1..((ntypes * (ntypes + 1)) \div 2) |-> ab[1] * k],
        !.parm7_lj_bcoeff = [k \in 1..((ntypes * (ntypes + 1)) \div 2) |-> ab[2] * k],
        !.residue_start = <<0>>,
        !.residue_name = <<"MOL">>,
        !.no_residues = 1]

\* the residue table of the per-atom ids rs: one row where the id changes
ChangePoints(rs) == {i \in 1..Len(rs) : i = 1 \/ rs[i] # rs[i - 1]}

\* a record with per-atom residue ids rs, as the MOL2 and PDB readers store them
\* (the file's id minus 1), with the residue table of the file when table is TRUE
ResidRecord(rs, table) ==
    LET starts == SortedSeq(ChangePoints(rs))
    IN [AtomsRecord(Len(rs), [i \in 1..Len(rs) |-> "CT"]) EXCEPT
           !.source_format = "TRIPOS MOL2",
           !.no_atom_types = 1,
           !.atom_resid = rs,
           !.atom_resname = [i \in 1..Len(rs) |-> ResName(rs[i])],
           !.residue_start = IF table THEN [k \in 1..Len(starts) |-> starts[k] - 1]
                             ELSE <<>>,
           !.residue_name = IF table THEN [k \in 1..Len(starts) |-> ResName(rs[starts[k]])]
                            ELSE <<>>,
           !.no_residues = IF table THEN Len(starts) ELSE 0,
           !.no_bonds = Len(rs) - 1,
           !.bond_from = [i \in 1..(Len(rs) - 1) |-> i - 1],
           !.bond_to = [i \in 1..(Len(rs) - 1) |-> i]]

\* a record with a residue table only: the rows start at the atoms of starts
TableRecord(n, starts) ==
    LET st == SortedSeq(starts)
    IN [AtomsRecord(n, [i \in 1..n |-> "CT"]) EXCEPT
           !.source_format = "TRIPOS MOL2",
           !.no_atom_types = 1,
           !.residue_start = st,
           !.residue_name = [k \in 1..Len(st) |-> ResName(k - 1)],
           !.no_residues = Len(st)]

\* the records build() is given: prmtop records, ab being the A and B
\* coefficient of the first type pair (pair k has k times as much), and records
\* with residues
BuildInputs ==
    {PrmtopRecord(Len(at), at, natyp, ntypes, ab) :
        at \in UNION {[1..k -> AtomTypes] : k \in 1..MaxAtoms},
        natyp \in 1..MaxTypes, ntypes \in 1..MaxTypes,
        ab \in {<<0, 0>>, <<0, 1>>, <<1, 0>>, <<4, 2>>}}
    \cup {ResidRecord(rs, table) :
            rs \in UNION {[1..k -> ResidVals] : k \in 1..MaxAtoms}, table \in BOOLEAN}
    \cup UNION {{TableRecord(n, {0} \cup more) : more \in SUBSET (1..(n - 1))} :
                  n \in 1..MaxTableAtoms}

LmpTypeName(t) == IF t = 1 THEN "CT" ELSE "HC"

\* a section of a data file: the keyword line, a blank line, the data lines
LmpSection(keyword, data) ==
    IF data = <<>> THEN <<>> ELSE <<LmpText(<<W(keyword)>>), LmpBlank>> \o data

\* a well-formed data file of atom_style full: na atoms of nt types, nb bonds,
\* nang angles, nd dihedrals and impropers; named says whether the Masses and
\* Atoms lines carry a "# name" comment, coeffs whether a Pair Coeffs section
\* follows the masses
LmpFile(na, nt, nb, nang, nd, named, coeffs) ==
    LET data(w, c) == IF named THEN LmpNoted(w, c) ELSE LmpText(w)
        type(i) == ((i - 1) % nt) + 1
    IN <<LmpText(<<W("LAMMPS"), W("data")>>), LmpBlank,
         LmpText(<<N(na), W("atoms")>>),
         LmpText(<<N(nb), W("bonds")>>),
         LmpText(<<N(nang), W("angles")>>),
         LmpText(<<N(nd), W("dihedrals")>>),
         LmpText(<<N(nd), W("impropers")>>),
         LmpText(<<N(nt), W("atom"), W("types")>>),
         LmpText(<<N(1), W("bond"), W("types")>>),
         LmpText(<<N(0), N(10), W("xlo"), W("xhi")>>),
         LmpText(<<N(0), N(20), W("ylo"), W("yhi")>>),
         LmpText(<<N(0), N(30), W("zlo"), W("zhi")>>)>>
       \o LmpSection("Masses",
              [t \in 1..nt |-> data(<<N(t), N(12)>>, LmpTypeName(t))])
       \o (IF coeffs
           THEN <<LmpText(<<W("Pair"), W("Coeffs")>>), LmpText(<<N(1), N(0), N(3)>>)>>
           ELSE <<>>)
       \o LmpSection("Atoms",
              [i \in 1..na |->
                  data(<<N(i), N(1), N(type(i)), N(0), N(i), N(0), N(0)>>,
                       LmpTypeName(type(i)))])
       \o LmpSection("Bonds", [b \in 1..nb |-> LmpText(<<N(b), N(1), N(1), N(2)>>)])
       \o LmpSection("Angles", [a \in 1..nang |-> LmpText(<<N(a), N(1), N(1), N(2), N(1)>>)])
       \o LmpSection("Dihedrals",
              [d \in 1..nd |-> LmpText(<<N(d), N(1), N(1), N(2), N(1), N(2)>>)])
       \o LmpSection("Impropers",
              [d \in 1..nd |-> LmpNoted(<<N(d), N(1), N(1), N(2), N(1), N(2)>>, "imp")])

----------------------------------------------------------------------------
(* The steps of read_file: _process_lines, one action per branch of the loop body *)

\* for line_no, line in enumerate(self.lines): an empty line is skipped
SkipBlank ==
    /\ pc = "for"
    /\ ln < Len(lines)
    /\ lines[ln + 1].k = "blank"
    /\ ln' = ln + 1
    /\ UNCHANGED <<cls, lines, pc, readerVars, pass, lsec, buildVars, fp>>

\* self._identify_section(line_no+1, line, next_line)
Identify ==
    /\ pc = "for"
    /\ ln < Len(lines)
    /\ lines[ln + 1].k # "blank"
    /\ SetSelf(IdentifySection(cls, Self, ln + 1, lines[ln + 1], NextLine(lines, ln)))
    /\ pc' = IF err' # NoErr THEN "raised" ELSE "append"
    /\ UNCHANGED <<cls, lines, ln, pass, lsec, buildVars, fp>>

\* self.section_lines.append(line)
AppendLine ==
    /\ pc = "append"
    /\ section_lines' = Append(section_lines, lines[ln + 1])
    /\ ln' = ln + 1
    /\ pc' = "for"
    /\ UNCHANGED <<cls, lines, section, section_start, section_format, Mol, calls,
                   err, pass, lsec, buildVars, fp>>

\* after the loop: self._process_last_section(self.section, ...)
EndOfInput ==
    /\ pc = "for"
    /\ ln = Len(lines)
    /\ SetSelf(ProcessLinesEnd(cls, Self))
    /\ pc' = IF err' # NoErr THEN "raised" ELSE "done"
    /\ pass' = pass + 1
    /\ UNCHANGED <<cls, lines, ln, lsec, buildVars, fp>>

\* PDB.read: self.Mol = reader.Mol; self.build()
PDBBuildStep ==
    /\ cls = "PDBReader"
    /\ pc = "done"
    /\ given' = Mol
    /\ Mol' = PDBBuild(Mol)
    /\ adapter' = <<"PDB">>
    /\ ret' = "None"
    /\ pc' = "built"
    /\ UNCHANGED <<cls, lines, ln, section, section_start, section_format,
                   section_lines, calls, err, pass, lsec, hashseed, first, fp>>

InitReader(c, ls, mol) ==
    /\ cls = c
    /\ lines = ls
    /\ ln = 0
    /\ pc = "for"
    /\ section = NoneVal
    /\ section_start = 0
    /\ section_format = NoneVal
    /\ section_lines = <<>>
    /\ Mol = mol
    /\ calls = <<>>
    /\ err = NoErr
    /\ pass = 0
    /\ lsec = NoneVal

\* the shared reader with any classifier, on the lines of a file: blank lines,
\* lines the classifier lets pass, lines on which it declares a section.
\* Reader.__init__ of the base class: self.Mol = initialize()
Init ==
    /\ LET AnyLines ==
               {[k |-> "blank"]}
               \cup {[k |-> "data", txt |-> t] : t \in {"x", "y"}}
               \cup {[k |-> "decl", name |-> n, fmt |-> f] :
                        n \in {"A", "B"}, f \in {NoneVal, "10I8"}}
       IN \E c \in {"Reader", "MolReader"}, ls \in SeqsUpTo(AnyLines, MaxLines) :
             InitReader(c, ls, CoreInitialize)
    /\ NoBuild

Next == SkipBlank \/ Identify \/ AppendLine \/ EndOfInput

Spec == Init /\ [][Next]_vars

\* PDB.read of a file: PDBReader.read_file, then PDB.build
InitPDB ==
    /\ \E ls \in SeqsUpTo(PDBLines, MaxPDBLines) :
          InitReader("PDBReader", ls, PDBInitialize)
    /\ NoBuild

NextPDB == SkipBlank \/ Identify \/ AppendLine \/ EndOfInput \/ PDBBuildStep

SpecPDB == InitPDB /\ [][NextPDB]_vars

\* PDB.build of a record
InitPDBBuild ==
    /\ \E rs \in SeqsUpTo(ResidVals, MaxPDBAtoms) :
          /\ InitReader("PDBReader", <<>>, PDBRecord(rs))
          /\ given = PDBRecord(rs)
    /\ adapter = <<>>
    /\ hashseed = <<>>
    /\ first = NoneVal
    /\ ret = "none"
    /\ fp = "none"

\* r = PDB(); r.Mol = record; r.build()
PDBBuildOnly ==
    /\ adapter = <<>>
    /\ pc = "for"
    /\ Mol' = PDBBuild(Mol)
    /\ adapter' = <<"PDB">>
    /\ ret' = "None"
    /\ pc' = "built"
    /\ UNCHANGED <<cls, lines, ln, section, section_start, section_format,
                   section_lines, calls, err, pass, lsec, hashseed, first, given, fp>>

SpecPDBBuild == InitPDBBuild /\ [][PDBBuildOnly]_vars

\* MOL = <adapter>.build(MOL) with the frame f the call ends in
BuildStep(a, f) ==
    /\ pc = "build"
    /\ Len(adapter) < MaxCalls
    /\ ret \in {"none", "MOL"}
    /\ Mol' = f.M
    /\ ret' = f.ret
    /\ err' = f.err
    /\ adapter' = Append(adapter, a)
    /\ first' = IF adapter = <<>> THEN f.M ELSE first
    /\ given' = Mol
    /\ UNCHANGED <<cls, lines, ln, pc, section, section_start, section_format,
                   section_lines, calls, pass, lsec, hashseed, fp>>

Parm7BuildStep == BuildStep("PARM7", Parm7Build(Mol))

LammpsBuildStep == BuildStep("LAMMPS", LammpsBuild(Mol))

Mol2BuildStep == BuildStep("MOL2", Mol2Build(Mol))

\* write_json(MOL, file), then load_json(file) in another process: the lists and
\* numbers come back as written, source_json is set, and sets of strings
\* iterate in the new process's order
JsonRoundTrip ==
    /\ pc = "build"
    /\ Len(adapter) < MaxCalls
    /\ ret = "MOL"
    /\ "JSON" \notin Range(adapter)
    /\ \E h \in HashOrders : hashseed' = h
    /\ Mol' = [Mol EXCEPT !.source_json = "file.json"]
    /\ adapter' = Append(adapter, "JSON")
    /\ UNCHANGED <<cls, lines, ln, pc, section, section_start, section_format,
                   section_lines, calls, err, pass, lsec, first, given, ret, fp>>

\* build() of the three adapters, in any order, on a record
InitBuild ==
    /\ \E rec \in BuildInputs : Mol = rec /\ given = rec
    /\ cls = "none"
    /\ lines = <<>>
    /\ ln = 0
    /\ pc = "build"
    /\ section = NoneVal
    /\ section_start = 0
    /\ section_format = NoneVal
    /\ section_lines = <<>>
    /\ calls = <<>>
    /\ err = NoErr
    /\ pass = 0
    /\ lsec = NoneVal
    /\ adapter = <<>>
    /\ hashseed \in HashOrders
    /\ first = NoneVal
    /\ ret = "none"
    /\ fp = "none"

NextBuild == Parm7BuildStep \/ LammpsBuildStep \/ Mol2BuildStep \/ JsonRoundTrip

SpecBuild == InitBuild /\ [][NextBuild]_vars

\* _process_lines of lammps_full.Reader: a blank line or a comment is skipped
LmpSkip ==
    /\ cls = "LammpsReader"
    /\ pc = "for"
    /\ ln < Len(lines)
    /\ lines[ln + 1].k \in {"blank", "comment"}
    /\ ln' = ln + 1
    /\ UNCHANGED <<cls, lines, pc, readerVars, pass, lsec, buildVars, fp>>

\* "if i == 0": the title
LmpTitle ==
    /\ cls = "LammpsReader"
    /\ pc = "for"
    /\ ln = 0 /\ ln < Len(lines)
    /\ lines[1].k = "text"
    /\ Mol' = [Mol EXCEPT !.title = lines[1].w]
    /\ ln' = ln + 1
    /\ UNCHANGED <<cls, lines, pc, section, section_start, section_format,
                   section_lines, calls, err, pass, lsec, buildVars, fp>>

\* any other line: the section dispatch
LmpProcessLine ==
    /\ cls = "LammpsReader"
    /\ pc = "for"
    /\ 0 < ln /\ ln < Len(lines)
    /\ lines[ln + 1].k = "text"
    /\ LET out == LmpLine(Mol, lsec, lines[ln + 1])
       IN /\ Mol' = out.Mol
          /\ lsec' = out.section
          /\ err' = out.err
          /\ pc' = IF out.err # NoErr THEN "raised"
                   ELSE IF out.returned THEN "return" ELSE "for"
    /\ ln' = ln + 1
    /\ UNCHANGED <<cls, lines, section, section_start, section_format,
                   section_lines, calls, pass, buildVars, fp>>

\* Reader.read: read_file has run _process_lines and returns; read calls
\* self._process_lines() itself, which starts again at line 0 with section None
LmpReadFileReturns ==
    /\ cls = "LammpsReader"
    /\ pass = 0
    /\ (pc = "for" /\ ln = Len(lines)) \/ pc = "return"
    /\ pass' = 1
    /\ ln' = 0
    /\ lsec' = NoneVal
    /\ pc' = "for"
    /\ UNCHANGED <<cls, lines, readerVars, buildVars, fp>>

\* the second _process_lines returns; core.check(self.Mol) only prints
LmpReadReturns ==
    /\ cls = "LammpsReader"
    /\ pass = 1
    /\ (pc = "for" /\ ln = Len(lines)) \/ pc = "return"
    /\ pass' = 2
    /\ pc' = "done"
    /\ UNCHANGED <<cls, lines, ln, readerVars, lsec, buildVars, fp>>

\* Reader.read of a data file, with or without bonds, angles, dihedrals, type
\* names and coefficient sections
InitLammps ==
    /\ \E ls \in (
            {LmpFile(na, nt, nb, nang, nd, named, coeffs) :
                na \in 1..MaxLmpAtoms, nt \in 1..MaxTypes, nb \in 0..MaxLmpBonds,
                nang \in 0..1, nd \in 0..1, named \in BOOLEAN, coeffs \in BOOLEAN}) :
          InitReader("LammpsReader", ls, LammpsInitialize)
    /\ NoBuild

NextLammps ==
    LmpSkip \/ LmpTitle \/ LmpProcessLine \/ LmpReadFileReturns \/ LmpReadReturns

SpecLammps == InitLammps /\ [][NextLammps]_vars

----------------------------------------------------------------------------
(* Writing: Writer(MOL, file).write() of each Writer class, and reading the *)
(* data file the LAMMPS Writer has closed with lammps_full.Reader.           *)

\* a chain of n atoms as build() populates it: bonds i-(i+1), angles and
\* dihedrals along the chain, two atoms to a residue, dihedral types of the
\* phases ph, force-field indices alternating over the types; qm is the number
\* of qm values lammps_qmag adds under the key atom_qm, -1 when the key is
\* missing; the atoms lie on a line centred on the origin, box holds the three
\* box lengths
ChainRecord(n, title, ph, qm, box) ==
    LET at == [i \in 1..n |-> LmpTypeName(((i - 1) % MaxTypes) + 1)]
        ut == FirstOccurrence(at)
        nb == n - 1
        na == IF n > 2 THEN n - 2 ELSE 0
        nd == IF n > 3 THEN n - 3 ELSE 0
        nr == (n + 1) \div 2
        ix(k, types) == [i \in 1..k |-> (i - 1) % types]
        qmag == IF qm = -1 THEN <<>> ELSE [atom_qm |-> [i \in 1..qm |-> 0]]
    IN qmag @@
       [(CoreInitialize @@ Parm7Defaults @@ LammpsDefaults @@ Unbuilt) EXCEPT
           !.title = title,
           !.source_format = "LAMMPS FULL",
           !.type = "SMALL",
           !.charge_type = "USER_CHARGES",
           !.keys = {"lammps", "mol2"},
           !.lammps_built = TRUE,
           !.mol2_built = TRUE,
           !.no_atoms = n,
           !.atom_name = [i \in 1..n |-> "A"],
           !.atom_x = [i \in 1..n |-> 2 * i - n - 1],
           !.box_x = box[1],
           !.box_y = box[2],
           !.box_z = box[3],
           !.atom_y = [i \in 1..n |-> 0],
           !.atom_z = [i \in 1..n |-> 0 - i],
           !.atom_q = [i \in 1..n |-> 0],
           !.atom_type = at,
           !.atom_type_index = [i \in 1..n |-> IndexOf(ut, at[i])],
           !.atom_mass = [i \in 1..n |-> IF at[i] = "CT" THEN 12 ELSE 1],
           !.atom_resid = [i \in 1..n |-> (i - 1) \div 2],
           !.atom_resname = [i \in 1..n |-> ResName((i - 1) \div 2)],
           !.unique_atom_types = ut,
           !.unique_atom_mass = [t \in 1..Len(ut) |-> IF ut[t] = "CT" THEN 12 ELSE 1],
           !.no_atom_types = Len(ut),
           !.FF_lj_epsilon = [t \in 1..Len(ut) |-> 1],
           !.FF_lj_sigma = [t \in 1..Len(ut) |-> 2],
           !.no_residues = nr,
           !.residue_start = [r \in 1..nr |-> 2 * (r - 1)],
           !.residue_name = [r \in 1..nr |-> ResName(r - 1)],
           !.residue_type = [r \in 1..nr |-> "RESIDUE"],
           !.no_bonds = nb,
           !.bond_from = [i \in 1..nb |-> i - 1],
           !.bond_to = [i \in 1..nb |-> i],
           !.bond_type = [i \in 1..nb |-> "1"],
           !.bond_ff_index = ix(nb, 2),
           !.no_bond_types = IF nb > 1 THEN 2 ELSE nb,
           !.FF_bond_k = [t \in 1..(IF nb > 1 THEN 2 ELSE nb) |-> 300],
           !.FF_bond_eq = [t \in 1..(IF nb > 1 THEN 2 ELSE nb) |-> 1],
           !.no_angles = na,
           !.angle_a = [i \in 1..na |-> i - 1],
           !.angle_b = [i \in 1..na |-> i],
           !.angle_c = [i \in 1..na |-> i + 1],
           !.angle_ff_index = ix(na, 1),
           !.no_angle_types = IF na > 0 THEN 1 ELSE 0,
           !.FF_angle_k = [t \in 1..(IF na > 0 THEN 1 ELSE 0) |-> 50],
           !.FF_angle_eq = [t \in 1..(IF na > 0 THEN 1 ELSE 0) |-> 2],
           !.no_diheds = nd,
           !.dihed_a = [i \in 1..nd |-> i - 1],
           !.dihed_b = [i \in 1..nd |-> i],
           !.dihed_c = [i \in 1..nd |-> i + 1],
           !.dihed_d = [i \in 1..nd |-> i + 2],
           !.dihed_ff_index = ix(nd, Len(ph)),
           !.no_dihed_types = Len(ph),
           !.FF_dihed_k = [t \in 1..Len(ph) |-> 1],
           !.FF_dihed_phase = ph,
           !.FF_dihed_periodicity = [t \in 1..Len(ph) |-> 2]]

\* Writer.__init__: the file is opened, the caller's record is kept.
\* The records given to a Writer: titles of one line, of two lines, and None; no
\* box length stored, one, or two
InitWrite ==
    /\ \E rec \in (
            {ChainRecord(n, title, ph, qm, box) :
                n \in 1..MaxWriteAtoms,
                title \in {<<W("chain")>>, <<W("chain"), W("\n"), W("molecule")>>, NoTitle},
                ph \in {p \in SeqsUpTo({"0", "pi/3", "pi/2", "2pi/3", "pi"}, MaxDihedTypes) :
                          p # <<>>},
                qm \in -1..MaxWriteAtoms,
                box \in {<<0, 0, 0>>, <<10, 0, 0>>, <<0, 10, 20>>}}) :
          Mol = rec /\ given = rec
    /\ cls \in {"Writer", "LammpsWriter", "QmagWriter", "Mol2Writer"}
    /\ lines = <<>>
    /\ ln = 0
    /\ pc = "write"
    /\ section = NoneVal
    /\ section_start = 0
    /\ section_format = NoneVal
    /\ section_lines = <<>>
    /\ calls = <<>>
    /\ err = NoErr
    /\ pass = 0
    /\ lsec = NoneVal
    /\ adapter = <<>>
    /\ hashseed = <<>>
    /\ first = NoneVal
    /\ ret = "none"
    /\ fp = "open"

\* write() of the Writer of class c has run as far as the frame f: close() is
\* the last call of a write() that returns None
WriteStep(c, f) ==
    /\ cls = c
    /\ pc = "write"
    /\ Mol' = f.M
    /\ lines' = f.out
    /\ ret' = f.ret
    /\ err' = f.err
    /\ fp' = IF f.ret = "None" THEN "closed" ELSE fp
    /\ pc' = "written"
    /\ UNCHANGED <<cls, ln, section, section_start, section_format, section_lines,
                   calls, pass, lsec, adapter, hashseed, first, given>>

\* lammps_full.Reader(file) on the file the LAMMPS Writer wrote and closed
ReadBack ==
    /\ cls = "LammpsWriter"
    /\ pc = "written"
    /\ fp = "closed"
    /\ cls' = "LammpsReader"
    /\ Mol' = LammpsInitialize
    /\ ln' = 0
    /\ pc' = "for"
    /\ UNCHANGED <<lines, section, section_start, section_format, section_lines,
                   calls, err, pass, lsec, buildVars, fp>>

\* the base Writer's write() is close() alone
NextWrite ==
    \/ WriteStep("Writer", Return(Writing(Mol), "None"))
    \/ WriteStep("LammpsWriter", LmpWrite(Mol))
    \/ WriteStep("QmagWriter", QmagWrite(Mol))
    \/ WriteStep("Mol2Writer", Mol2Write(Mol))
    \/ ReadBack \/ LmpSkip \/ LmpTitle \/ LmpProcessLine
    \/ LmpReadFileReturns \/ LmpReadReturns

SpecWrite == InitWrite /\ [][NextWrite]_vars

----------------------------------------------------------------------------
(* Reading a MOL2 file: tripos_mol2.read(file), and Mol2Reader().read_file(file) *)

\* a MOL2 file of na atoms in one substructure, with the BOND lines bs (two
\* atom ids and a bond order) and a bond count of declared in the MOLECULE section
Mol2File(na, bs, declared) ==
    LET sect(name) == [k |-> "section", name |-> name, w |-> <<>>]
        data(w) == [k |-> "data", name |-> NoneVal, w |-> w]
        blank == [k |-> "blank", name |-> NoneVal, w |-> <<>>]
    IN <<sect("MOLECULE"), data(<<W("chain")>>),
         data(<<N(na), N(declared), N(1)>>), data(<<W("SMALL")>>),
         data(<<W("USER_CHARGES")>>), blank, sect("ATOM")>>
       \o [i \in 1..na |->
             data(<<N(i), W("A"), N(i), N(0), N(0), W(LmpTypeName(((i - 1) % MaxTypes) + 1)),
                    N(1), W("MOL"), N(0)>>)]
       \o <<sect("BOND")>>
       \o [i \in 1..Len(bs) |-> data(<<N(i), N(bs[i][1]), N(bs[i][2]), N(bs[i][3])>>)]
       \o <<sect("SUBSTRUCTURE"), data(<<N(1), W("MOL"), N(1), W("RESIDUE")>>)>>

\* mol2.read(file) and tripos_mol2.read(file) on a file: a BOND line may name the ids 0 and na + 1, which are no atoms
\* of a file of na atoms; a bond is single or double
InitMol2 ==
    /\ cls \in {"Mol2Reader", "tripos_mol2.read"}
    /\ lines \in (
            UNION {{Mol2File(na, bs, d) :
                        bs \in SeqsUpTo((0..(na + 1)) \X (0..(na + 1)) \X {1, 2}, MaxMol2Bonds),
                        d \in 0..MaxMol2Bonds} : na \in 1..MaxMol2Atoms})
    /\ ln = 0
    /\ pc = IF cls = "Mol2Reader" THEN "for" ELSE "read"
    /\ section = NoneVal
    /\ section_start = 0
    /\ section_format = NoneVal
    /\ section_lines = <<>>
    /\ Mol = IF cls = "Mol2Reader" THEN Mol2ReaderInitialize ELSE Mol2Initialize
    /\ calls = <<>>
    /\ err = NoErr
    /\ pass = 0
    /\ lsec = NoneVal
    /\ adapter = <<>>
    /\ hashseed \in HashOrders
    /\ first = NoneVal
    /\ given = NoneVal
    /\ ret = "none"
    /\ fp = "none"

\* one pass of the loop of tripos_mol2.read
TriposReadLine ==
    /\ cls = "tripos_mol2.read"
    /\ pc = "read"
    /\ ln < Len(lines)
    /\ LET f == Mol2ReadLine([M |-> Mol, sec |-> lsec, ret |-> "run", err |-> NoErr],
                             lines, ln + 1)
       IN /\ Mol' = f.M
          /\ lsec' = f.sec
          /\ err' = f.err
          /\ ret' = IF f.ret = "run" THEN ret ELSE f.ret
          /\ pc' = IF f.ret = "run" THEN "read" ELSE "done"
    /\ ln' = ln + 1
    /\ UNCHANGED <<cls, lines, section, section_start, section_format, section_lines,
                   calls, pass, adapter, hashseed, first, given, fp>>

\* the end of the file: the last section is checked, then the record returned
TriposReadEnd ==
    /\ cls = "tripos_mol2.read"
    /\ pc = "read"
    /\ ln = Len(lines)
    /\ LET chk == Mol2CheckLastSection(lsec, Mol)
       IN /\ Mol' = chk.M
          /\ ret' = IF chk.ok THEN "MOL" ELSE "False"
    /\ pc' = "done"
    /\ UNCHANGED <<cls, lines, ln, section, section_start, section_format,
                   section_lines, calls, err, pass, lsec, adapter, hashseed, first,
                   given, fp>>

\* mol2.write(mol2.read(file), file): the record read is copied into a
\* Mol2Writer, whose write_file leaves the file closed
Mol2WriterWrite ==
    /\ cls = "Mol2Reader"
    /\ pc = "done"
    /\ err = NoErr
    /\ LET f == Mol2Writer_write_file(Mol)
       IN /\ lines' = f.out
          /\ ret' = f.ret
          /\ err' = f.err
    /\ fp' = "closed"
    /\ pc' = "written"
    /\ UNCHANGED <<cls, ln, section, section_start, section_format, section_lines,
                   Mol, calls, pass, lsec, adapter, hashseed, first, given>>

NextMol2 ==
    \/ TriposReadLine \/ TriposReadEnd \/ SkipBlank \/ Identify \/ AppendLine
    \/ EndOfInput \/ Mol2WriterWrite

SpecMol2 == InitMol2 /\ [][NextMol2]_vars

----------------------------------------------------------------------------
(* Reading a prmtop and a restart file: amber_parm7.read(prmtop, rst7) *)

\* a prmtop file of n atoms.  v says how each part is laid out:
\*   names   0 no ATOM_NAME section; 1 names padded with blanks to 4 characters;
\*           2 names of 4 characters, abutting; 3 the same as the last line of
\*           the file, which ends without a newline; 4 abutting, one name short
\*   bonds   0 none; 1 the record (9, 12, 2) with hydrogen; 2 records in both
\*           bond sections, an angle and a dihedral, with negative atom tokens;
\*           3 a record cut short; 4 as 1, with NBONH left 0
\*   resid   0 none; 1 RESIDUE_LABEL and RESIDUE_POINTER; 2 RESIDUE_LABEL only
\*   types   whether AMBER_ATOM_TYPE is there
\*   charge  0 none; 1 CHARGE; 2 CHARGE, and POINTERS again with one atom more
PrmtopFile(n, v) ==
    LET flag(name) == [k |-> "flag", word |-> name, c |-> <<>>]
        format(f) == [k |-> "format", word |-> f, c |-> <<>>]
        data(c) == [k |-> "data", word |-> NoneVal, c |-> c]
        digits == <<"0", "1", "2", "3", "4", "5", "6", "7", "8", "9">>
        dig[m \in 0..99] == IF m < 10 THEN <<digits[m + 1]>>
                            ELSE dig[m \div 10] \o <<digits[(m % 10) + 1]>>
        text(m) == IF m < 0 THEN <<"-">> \o dig[0 - m] ELSE dig[m]
        \* %8d, and the values of a section ten to a line
        I8(m) == [i \in 1..(8 - Len(text(m))) |-> " "] \o text(m)
        join(vals, wide) ==
            LET acc[i \in 0..Len(vals)] ==
                    IF i = 0 THEN <<>>
                    ELSE acc[i - 1] \o (IF wide THEN I8(vals[i]) ELSE text(vals[i]) \o <<" ">>)
            IN acc[Len(vals)] \o <<"\n">>
        sect(name, f, lns) == <<flag(name), format(f)>> \o lns
        ints(name, vals, wide) ==
            sect(name, IF wide THEN "10I8" ELSE "5E16", <<data(join(vals, wide))>>)
        name(i, pad) == <<"C", digits[i + 1], pad, pad>>
        named(count, pad, nl) ==
            LET acc[i \in 0..count] == IF i = 0 THEN <<>> ELSE acc[i - 1] \o name(i, pad)
            IN sect("ATOM_NAME", "20a4", <<data(acc[count] \o (IF nl THEN <<"\n">> ELSE <<>>))>>)
        nbonh == IF v.bonds \in {1, 2} THEN 1 ELSE 0
        nbona == IF v.bonds = 2 THEN 1 ELSE 0
        pointers(atoms) ==
            <<atoms, 1, nbonh, nbona,
              IF v.bonds = 2 THEN 1 ELSE 0, 0, IF v.bonds = 2 THEN 1 ELSE 0, 0, 0, 0>>
        more == <<0, IF v.resid = 0 THEN 0 ELSE 1, nbona,
                  0, 0, 0, 0, 0, 1>>
        head(atoms) ==
            sect("POINTERS", "10I8",
                    <<data(join(pointers(atoms), TRUE)), data(join(more, TRUE))>>)
    IN <<[k |-> "version", word |-> "V0001.000", c |-> <<>>]>>
       \o sect("TITLE", "20a4", <<data(<<"m", "o", "l", "\n">>)>>)
       \o head(n)
       \o (CASE v.names = 1 -> named(n, " ", TRUE)
             [] v.names = 2 -> named(n, "x", TRUE)
             [] v.names = 4 -> named(n - 1, "x", TRUE)
             [] OTHER -> <<>>)
       \o (IF v.charge = 0 THEN <<>> ELSE ints("CHARGE", [i \in 1..n |-> 0 - i], FALSE))
       \o (IF v.types
           THEN sect("AMBER_ATOM_TYPE", "20a4",
                        <<data([i \in 1..(3 * n) |->
                                  CASE i % 3 = 1 -> "C" [] i % 3 = 2 -> "T" [] OTHER -> " "]
                               \o <<"\n">>)>>)
           ELSE <<>>)
       \o (IF v.resid = 0 THEN <<>>
           ELSE sect("RESIDUE_LABEL", "20a4", <<data(<<"A", "L", "A", "\n">>)>>))
       \o (IF v.resid = 1 THEN ints("RESIDUE_POINTER", <<1>>, TRUE) ELSE <<>>)
       \o (CASE v.bonds \in {1, 4} -> ints("BONDS_INC_HYDROGEN", <<9, 12, 2>>, TRUE)
             [] v.bonds = 2 ->
                  ints("BONDS_INC_HYDROGEN", <<0, 3, 1>>, TRUE)
                  \o ints("BONDS_WITHOUT_HYDROGEN", <<-3, 0, 2>>, FALSE)
                  \o ints("ANGLES_INC_HYDROGEN", <<0, -3, 6, 1>>, TRUE)
                  \o ints("DIHEDRALS_INC_HYDROGEN", <<0, 3, -6, -9, 1>>, TRUE)
             [] v.bonds = 3 -> ints("BONDS_INC_HYDROGEN", <<0, 3>>, TRUE)
             [] OTHER -> <<>>)
       \o (IF v.charge = 2 THEN head(n + 1) ELSE <<>>)
       \o (IF v.names = 3 THEN named(n, "x", FALSE) ELSE <<>>)

\* amber_parm7.read(prmtop, rst7) on the prmtop files read: a plain file with
\* one part laid out another way
InitParm7 ==
    /\ cls = "amber_parm7.read"
    /\ lines \in (
            LET plain == [names |-> 1, bonds |-> 0, resid |-> 1, types |-> TRUE, charge |-> 0]
            IN {PrmtopFile(n, v) :
                    n \in 1..MaxParmAtoms,
                    v \in {u \in [names : 0..4, bonds : 0..4, resid : 0..2, types : BOOLEAN,
                                  charge : 0..2] :
                             Cardinality({key \in DOMAIN u : u[key] # plain[key]}) <= 1}})
    /\ ln = 0
    /\ pc = "read_prmtop"
    /\ section = NoneVal
    /\ section_start = 0
    /\ section_format = NoneVal
    /\ section_lines = <<>>
    /\ Mol = Parm7Initialize
    /\ calls = <<>>
    /\ err = NoErr
    /\ pass = 0
    /\ lsec = NoneVal
    /\ adapter = <<>>
    /\ hashseed = <<>>
    /\ first = NoneVal
    /\ given = <<>>
    /\ ret = "none"
    /\ fp = "none"

\* one pass of the loop of read_prmtop; read() returns False when read_prmtop
\* returns None or False
PrmtopReadLine ==
    /\ cls = "amber_parm7.read"
    /\ pc = "read_prmtop"
    /\ ln < Len(lines)
    /\ LET line == lines[ln + 1]
           last == Parm7_process_last_section(Mol, lsec, section_lines, section_format)
           flushed == line.k = "flag" /\ line.word # NoneVal
           f == CASE line.k # "data" /\ line.word = NoneVal -> Return(Running(Mol), "False")
                  [] flushed -> last
                  [] line.k = "version" ->
                       Running([Mol EXCEPT !.parm_version_string = line.word])
                  [] OTHER -> Running(Mol)
       IN /\ Mol' = f.M
          /\ err' = f.err
          /\ ret' = IF f.ret \in {"run", "True"} THEN ret ELSE f.ret
          /\ pc' = IF f.ret \in {"run", "True"} THEN pc ELSE "done"
          /\ lsec' = IF flushed /\ f.ret = "True" THEN line.word ELSE lsec
          /\ section_lines' = CASE flushed /\ f.ret = "True" -> <<>>
                                 [] line.k = "data" -> Append(section_lines, line.c)
                                 [] OTHER -> section_lines
          /\ section_format' = IF line.k = "format" /\ line.word # NoneVal
                               THEN line.word ELSE section_format
    /\ ln' = ln + 1
    /\ UNCHANGED <<cls, lines, section, section_start, calls, pass, adapter, hashseed,
                   first, given, fp>>

\* the end of the prmtop file: the final section is processed
PrmtopReadEnd ==
    /\ cls = "amber_parm7.read"
    /\ pc = "read_prmtop"
    /\ ln = Len(lines)
    /\ LET f == Parm7_process_last_section(Mol, lsec, section_lines, section_format)
       IN /\ Mol' = f.M
          /\ err' = f.err
          /\ ret' = IF f.ret = "True" THEN ret ELSE f.ret
          /\ pc' = IF f.ret = "True" THEN "read_rst7" ELSE "done"
    /\ UNCHANGED <<cls, lines, ln, section, section_start, section_format, section_lines,
                   calls, pass, lsec, adapter, hashseed, first, given, fp>>

\* MOL = read_rst7(MOL, rst7) on a restart file, kept in given, and the rest of
\* read(): core.check(MOL) subscripts what read_rst7 returned, the record or False.
\* The restart files read: a title, a line with the atom count and the time (or
\* a blank line in its place), then T numbers, per of them to a line; the
\* number in place i is i
Rst7Read ==
    /\ cls = "amber_parm7.read"
    /\ pc = "read_rst7"
    /\ \E file \in (
            {<<LmpText(<<W("restart")>>),
               IF counted THEN LmpText(<<N(declared), N(0)>>) ELSE LmpBlank>>
             \o [l \in 1..((T + per - 1) \div per) |->
                   LmpText([j \in 1..(IF l * per <= T THEN per ELSE T - (l - 1) * per) |->
                              N((l - 1) * per + j)])] :
                declared \in 1..(MaxParmAtoms + 1), counted \in BOOLEAN,
                T \in 0..(6 * MaxParmAtoms + 7), per \in {3, 6}}) :
          LET f == ReadRst7(Mol, file)
          IN /\ given' = file
             /\ Mol' = f.M
             /\ err' = CASE f.ret = "False" -> "TypeError" [] OTHER -> f.err
             /\ ret' = CASE f.ret = "False" -> "raise"
                          [] f.ret = "MOL" /\ ~Check(f.M) -> "False"
                          [] OTHER -> f.ret
    /\ pc' = "done"
    /\ UNCHANGED <<cls, lines, ln, section, section_start, section_format, section_lines,
                   calls, pass, lsec, adapter, hashseed, first, fp>>

NextParm7 == PrmtopReadLine \/ PrmtopReadEnd \/ Rst7Read

SpecParm7 == InitParm7 /\ [][NextParm7]_vars

----------------------------------------------------------------------------
(* Assigning and reading the keys of an AttrDict *)

\* the keys assigned: identifiers, strings that are none, names of dict and of
\* the class, a name with a newline at its end, and the number 5
AttrKeys ==
    {Str(c) : c \in {<<"x">>, <<"a", "1">>, <<"_", "b">>, <<"1", "a">>, <<"a", " ", "b">>,
                     <<>>, <<"a", "\n">>, <<"a", "\n", "\n">>}
                    \cup DictNamespace \cup ClassNamespace}
    \cup {[str |-> FALSE, c |-> <<>>]}

\* AttrDict(): the empty AttrDict
InitAttr ==
    /\ cls = "AttrDict"
    /\ Mol = <<>>
    /\ lines = <<>>
    /\ ln = 0
    /\ pc = "new"
    /\ section = NoneVal
    /\ section_start = 0
    /\ section_format = NoneVal
    /\ section_lines = <<>>
    /\ calls = <<>>
    /\ err = NoErr
    /\ pass = 0
    /\ lsec = NoneVal
    /\ adapter = <<>>
    /\ hashseed = <<>>
    /\ first = <<>>
    /\ given = [k |-> Str(<<>>), v |-> "v1"]
    /\ ret = "none"
    /\ fp = "none"

\* one statement on the AttrDict ends in the frame f: given is what was assigned
\* or read, first the dict the constructor was handed
AttrStep(op, f, item, d) ==
    /\ cls = "AttrDict"
    /\ pass < MaxAttrOps
    /\ pc' = op
    /\ Mol' = f.M
    /\ ret' = f.ret
    /\ err' = f.err
    /\ given' = item
    /\ first' = d
    /\ pass' = pass + 1
    /\ UNCHANGED <<cls, lines, ln, section, section_start, section_format, section_lines,
                   calls, lsec, adapter, hashseed, fp>>

\* self[key] = value
AttrSetItem ==
    \E key \in AttrKeys, value \in {"v1", "v2"} :
        AttrStep("setitem", Return(AttrDict_setitem(Running(Mol), key, value), "None"),
                 [k |-> key, v |-> value], <<>>)

\* self.key = value, or setattr(self, key, value): the name is a string
AttrSetAttr ==
    \E key \in {a \in AttrKeys : a.str}, value \in {"v1", "v2"} :
        AttrStep("setattr", Return(AttrDict_setitem(Running(Mol), key, value), "None"),
                 [k |-> key, v |-> value], <<>>)

\* AttrDict(d): the object the statements that follow act on, as far as
\* __init__ filled it.
\* The dicts given to the constructor: up to two items, their keys distinct
AttrConstruct ==
    \E d \in (
            {<<>>}
            \cup {<<[k |-> key, v |-> "v1"]>> : key \in AttrKeys}
            \cup {<<[k |-> Str(<<"x">>), v |-> "v1"], [k |-> key, v |-> "v2"]>> :
                    key \in AttrKeys \ {Str(<<"x">>)}}) :
        AttrStep("init", AttrDict_init(Running(<<>>), d), given, d)

\* self[key]
AttrGetItem ==
    \E key \in AttrKeys :
        AttrStep("getitem",
                 IF DictHas(Mol, key) THEN Return(Running(Mol), DictGet(Mol, key))
                 ELSE Raise(Running(Mol), "KeyError"),
                 [k |-> key, v |-> "v1"], <<>>)

\* self.key, or getattr(self, key)
AttrGetAttr ==
    \E key \in {a \in AttrKeys : a.str} :
        AttrStep("getattr", AttrDict_getattr(Mol, key), [k |-> key, v |-> "v1"], <<>>)

NextAttr == AttrSetItem \/ AttrSetAttr \/ AttrConstruct \/ AttrGetItem \/ AttrGetAttr

SpecAttr == InitAttr /\ [][NextAttr]_vars

----------------------------------------------------------------------------
(* Claims about the shared reader *)

NonBlank(l) == l.k # "blank"

\* C1: _new_section(name) with name equal to the current section changes nothing
\* and invokes no handler; with another name while a section is current, the
\* handler is invoked exactly once, with the current section's name, buffered
\* lines and format descriptor (and while section_start is still the old one),
\* and only then are name, start line and format replaced and the buffer emptied.
C1_NewSectionFlushesThenResets ==
    [][ (pc = "for" /\ ln < Len(lines) /\ lines[ln + 1].k = "decl" /\ pc' # pc) =>
          LET l == lines[ln + 1] IN
          /\ l.name = section => UNCHANGED readerVars
          /\ (l.name # section /\ section # NoneVal) =>
                /\ calls' = Append(calls, [section |-> section, lines |-> section_lines,
                                           sformat |-> section_format,
                                           start |-> section_start])
                /\ section' = l.name
                /\ section_start' = ln + 1
                /\ section_format' = l.fmt
                /\ section_lines' = <<>>
                /\ Mol' = Mol /\ err' = NoErr ]_vars

\* a section with buffered lines was flushed by the declaration of another one
C1_Witness ==
    /\ pc = "append"
    /\ calls # <<>>
    /\ Last(calls).lines # <<>>
    /\ Last(calls).section # section
    /\ section_lines = <<>>
    /\ section_start = ln + 1

\* the section in force before line i: the name of the latest declaration before it
CurrentBefore(ls, i) ==
    LET D == {j \in 1..(i - 1) : ls[j].k = "decl"}
    IN IF D = {} THEN NoneVal ELSE ls[SetMax(D)].name

\* the lines that declare a section other than the one in force
Boundaries(ls) ==
    {i \in 1..Len(ls) : ls[i].k = "decl" /\ ls[i].name # CurrentBefore(ls, i)}

\* the maximal runs of one section: name, and the non-blank lines from the
\* declaring line up to the line before the next boundary
Runs(ls) ==
    LET B == SortedSeq(Boundaries(ls))
    IN [n \in 1..Len(B) |->
          [section |-> ls[B[n]].name,
           lines |-> SelectSeq(SubSeq(ls, B[n],
                                      IF n < Len(B) THEN B[n + 1] - 1 ELSE Len(ls)),
                               NonBlank)]]

\* the handler invocations with a non-null section name: name and lines
NamedCalls ==
    LET named == SelectSeq(calls, LAMBDA c : c.section # NoneVal)
    IN [n \in 1..Len(named) |-> [section |-> named[n].section, lines |-> named[n].lines]]

\* C2: one run of _process_lines invokes the handler with a non-null name once
\* per maximal run of one section, in order, each with the run's non-blank lines
\* from the declaring line on; the last run is delivered at end of input and not
\* before.
C2_OneCallPerRun ==
    /\ pc = "done" => NamedCalls = Runs(lines)
    /\ pc = "for" => NamedCalls = Front(Runs(SubSeq(lines, 1, ln)))
    /\ pc = "append" => NamedCalls = Front(Runs(SubSeq(lines, 1, ln + 1)))

\* a file with a blank line and two runs has been read to its end
C2_Witness ==
    /\ pc = "done"
    /\ Len(NamedCalls) >= 2
    /\ \E i \in 1..Len(lines) : lines[i].k = "blank"
    /\ \E i \in 1..Len(calls) : Len(calls[i].lines) >= 2

----------------------------------------------------------------------------
(* Claims about the PDB adapter *)

\* the handler names PDBReader._process_last_section has a branch for
PDBKnownSections == {"REMARK", "CRYST1", "ATOM", "CONECT", "END"}

\* the line numbers (1-based) of the lines buffered in the section of invocation c:
\* the first Len(c.lines) non-blank lines from the line that declared it
SectionLineNos(ls, c) ==
    LET nb == SelectSeq([i \in 1..Len(ls) |-> i],
                        LAMBDA i : i >= c.start /\ ls[i].k # "blank")
    IN {nb[i] : i \in 1..Len(c.lines)}

\* the line numbers of the lines of the sections no handler recognises
UnknownLineNos ==
    UNION {SectionLineNos(lines, calls[n]) :
             n \in {m \in 1..Len(calls) :
                      calls[m].section \notin PDBKnownSections \cup {NoneVal}}}

\* the input with the lines of its unknown sections removed
WithoutUnknown ==
    LET keep == SelectSeq([i \in 1..Len(lines) |-> i], LAMBDA i : i \notin UnknownLineNos)
    IN [i \in 1..Len(keep) |-> lines[keep[i]]]

\* the rank of a line in the layout the reader is written for: ATOM records,
\* then the REMARK lines tagged CONECT, then RESCON, then SEGRNG, then END
LayoutRank(l) ==
    CASE l.k = "ATOM" -> 1
      [] l.k = "REMARK" /\ l.tag = "CONECT" -> 2
      [] l.k = "REMARK" /\ l.tag = "RESCON" -> 3
      [] l.k = "REMARK" /\ l.tag = "SEGRNG" -> 4
      [] l.k = "END" -> 5
      [] OTHER -> 0

\* a file in that layout: it starts with an ATOM record and its parts are in order
WellFormedPDB(ls) ==
    /\ ls # <<>>
    /\ LayoutRank(ls[1]) = 1
    /\ \A i \in 2..Len(ls) : LayoutRank(ls[i]) >= LayoutRank(ls[i - 1])

\* C4: an unknown section changes nothing: reading a PDB file gives the record
\* (and raises no more errors than) reading the same file with the lines of its
\* unrecognised sections removed.  Stated for files in the expected layout.
C4_UnknownSectionTransparent ==
    (cls = "PDBReader" /\ pc \in {"done", "raised"} /\ WellFormedPDB(lines)
        /\ UnknownLineNos # {}) =>
        LET other == ProcessLines("PDBReader", ReaderInit(PDBInitialize), WithoutUnknown, 0)
        IN other.Mol = Mol /\ other.err = err

\* some atom's residue id is lower than the previous atom's and is not 0
BadDecrease(rs) == \E i \in 2..Len(rs) : rs[i] < rs[i - 1] /\ rs[i] # 0

\* C8: PDB.build raises an error, and does not mark the record as built, when an
\* atom's residue id is lower than the previous atom's and is not exactly 0.
C8_BadDecreaseRaises ==
    (pc = "built" /\ BadDecrease(given.atom_resid)) => (err # NoErr /\ ~Mol.pdb_built)

\* the positions where the residue id restarts at 0
Restarts(rs) == {i \in 2..Len(rs) : rs[i] < rs[i - 1] /\ rs[i] = 0}

\* C9: when the only decreases of residue id are restarts at exactly 0, PDB.build
\* leaves atom_resid non-decreasing, every id from a restart on being greater than
\* every id before it, the restarting atom getting the running maximum plus one.
C9_RestartsRebased ==
    (pc = "built" /\ ~BadDecrease(given.atom_resid)) =>
        LET in == given.atom_resid
            out == Mol.atom_resid
        IN /\ Len(out) = Len(in)
           /\ \A i \in 2..Len(out) : out[i - 1] <= out[i]
           /\ \A i \in Restarts(in) :
                 /\ \A j \in 1..(i - 1), m \in i..Len(out) : out[j] < out[m]
                 /\ out[i] = SetMax({out[j] : j \in 1..(i - 1)}) + 1
           /\ \A i \in 2..Len(out) :
                 i \notin Restarts(in) => out[i] - out[i - 1] = in[i] - in[i - 1]

\* a record with two restarts has been built
C9_Witness ==
    /\ pc = "built"
    /\ ~BadDecrease(given.atom_resid)
    /\ Cardinality(Restarts(given.atom_resid)) >= 2
    /\ Mol.atom_resid # given.atom_resid

----------------------------------------------------------------------------
(* Claims about build() of the PARM7, LAMMPS-full and TRIPOS MOL2 adapters *)

\* the last call made on the record was build() of one of the adapters in as
LastBuild(as) == adapter # <<>> /\ Last(adapter) \in as

\* unique_atom_types[atom_type_index[i]] == atom_type[i] for every atom i
TypeIndexConsistent(M) ==
    \A i \in 1..Len(M.atom_type) :
        /\ i <= Len(M.atom_type_index)
        /\ PyValid(M.unique_atom_types, M.atom_type_index[i])
        /\ M.atom_type_index[i] >= 0
        /\ M.unique_atom_types[M.atom_type_index[i] + 1] = M.atom_type[i]

\* C5: after build() of the PARM7 or of the LAMMPS adapter returns,
\* unique_atom_types[atom_type_index[i]] = atom_type[i] holds for every atom i,
\* whatever record was given, one with a populated atom_type_index included.
C5_TypeIndexConsistent ==
    (LastBuild({"PARM7", "LAMMPS"}) /\ ret = "MOL") => TypeIndexConsistent(Mol)

\* C6: build() of the PARM7, LAMMPS and MOL2 adapters is idempotent: applied to
\* the record a build() of the same adapter returned, it returns an equal record.
C6_BuildIdempotent ==
    (/\ LastBuild({"PARM7", "LAMMPS", "MOL2"})
     /\ Len(adapter) >= 2
     /\ adapter[Len(adapter) - 1] = Last(adapter)
     /\ ret = "MOL") => Mol = given

\* C7: build() of the PARM7 and LAMMPS adapters never raises: when a derived
\* table cannot be built to its length it returns the partially built record.
C7_BuildNeverRaises ==
    LastBuild({"PARM7", "LAMMPS"}) => ret # "raise"

NonDecreasing(rs) == \A i \in 2..Len(rs) : rs[i - 1] <= rs[i]

\* C10: after tripos_mol2.build succeeds on a record whose per-atom residue ids
\* are non-decreasing, atom_resid starts at 0, rises by exactly 1 where the given
\* id changes and nowhere else, and every value is an index of residue_name.
C10_ResidContiguous ==
    (/\ LastBuild({"MOL2"})
     /\ ret = "MOL"
     /\ given.atom_resid # <<>>
     /\ Len(given.atom_resid) = Len(given.atom_name)
     /\ \A i \in 1..Len(given.atom_resid) : given.atom_resid[i] >= 0
     /\ NonDecreasing(given.atom_resid)) =>
        LET in == given.atom_resid
            out == Mol.atom_resid
        IN /\ Len(out) = Len(in)
           /\ out[1] = 0
           /\ \A i \in 2..Len(out) :
                 out[i] = IF in[i] # in[i - 1] THEN out[i - 1] + 1 ELSE out[i - 1]
           /\ \A i \in 1..Len(out) : 0 <= out[i] /\ out[i] < Len(Mol.residue_name)

----------------------------------------------------------------------------
(* Claims about the LAMMPS-full reader *)

\* C3: one Reader.read of the LAMMPS-full adapter handles each line once: after
\* it the record holds one atom_x per declared atom and one bond_from per
\* declared bond of a well-formed file.
C3_EachLineOnce ==
    (cls = "LammpsReader" /\ pc = "done" /\ err = NoErr) =>
        /\ Len(Mol.atom_x) = Mol.no_atoms
        /\ Len(Mol.bond_from) = Mol.no_bonds

\* the record given to the last build() carries per-atom residue ids, none
\* negative and never decreasing, and a residue name for every atom
ResidsGiven(M) ==
    /\ M.atom_resid # <<>>
    /\ Len(M.atom_resid) = Len(M.atom_name)
    /\ Len(M.atom_resname) = Len(M.atom_resid)
    /\ \A i \in 1..Len(M.atom_resid) : M.atom_resid[i] >= 0
    /\ NonDecreasing(M.atom_resid)

\* C11: when tripos_mol2.build rebuilds the residue table from the atoms (the
\* given table's length is not the number of distinct ids), it succeeds for every
\* non-decreasing atom_resid, residue_start starts at 0 and is strictly
\* increasing with one row per distinct id, residue_name[r] is the residue name
\* of the first atom of residue r, and no_residues is the number of distinct ids.
C11_TableFromAtoms ==
    (/\ LastBuild({"MOL2"})
     /\ ResidsGiven(given)
     /\ Len(given.residue_start) # Cardinality(Range(given.atom_resid))) =>
        LET starts == SortedSeq(ChangePoints(given.atom_resid))
        IN /\ ret = "MOL"
           /\ Mol.residue_start = [r \in 1..Len(starts) |-> starts[r] - 1]
           /\ Mol.residue_name = [r \in 1..Len(starts) |-> given.atom_resname[starts[r]]]
           /\ Mol.no_residues = Cardinality(Range(given.atom_resid))

\* M carries a residue table and no per-atom residue info: residue_start starts
\* at 0 and is strictly increasing, residue_name has a name for every row
TableOnly(M) ==
    /\ M.atom_resid = <<>> /\ M.atom_resname = <<>>
    /\ M.residue_start # <<>>
    /\ M.residue_start[1] = 0
    /\ \A r \in 2..Len(M.residue_start) : M.residue_start[r - 1] < M.residue_start[r]
    /\ Len(M.residue_name) = Len(M.residue_start)

\* the residue (0-based) whose range [residue_start[r], residue_start[r+1])
\* holds atom i (0-based)
ResidueOf(M, i) ==
    SetMax({r \in 0..(Len(M.residue_start) - 1) : M.residue_start[r + 1] <= i})

\* C12: build() of the three adapters, given a residue table and no per-atom
\* residue info, gives every atom the index and the name of the residue whose
\* range holds it, so atom_resid and atom_resname end with no_atoms entries.
C12_ResiduesExpanded ==
    (LastBuild({"PARM7", "LAMMPS", "MOL2"}) /\ TableOnly(given)) =>
        /\ Len(Mol.atom_resid) = given.no_atoms
        /\ Len(Mol.atom_resname) = given.no_atoms
        /\ \A i \in 0..(given.no_atoms - 1) :
              /\ Mol.atom_resid[i + 1] = ResidueOf(given, i)
              /\ Mol.atom_resname[i + 1] = given.residue_name[ResidueOf(given, i) + 1]

\* the scenario of the claim: starts [0,3] with 5 atoms give [0,0,0,1,1]
C12_Witness ==
    /\ LastBuild({"MOL2"})
    /\ TableOnly(given)
    /\ given.residue_start = <<0, 3>>
    /\ given.no_atoms = 5
    /\ Mol.atom_resid = <<0, 0, 0, 1, 1>>
    /\ given.residue_name = <<"GLY", "SER">>
    /\ Mol.atom_resname = <<"GLY", "GLY", "GLY", "SER", "SER">>

\* C16: write() of the LAMMPS-full Writer or of the TRIPOS MOL2 Writer leaves
\* every field of the record it was given, the title included, as it was
\* before the call.
C16_WriteOnlyReads ==
    (cls \in {"LammpsWriter", "Mol2Writer"} /\ pc = "written") => Mol = given

\* the first n entries of the list read are the n entries of the list written
SamePrefix(read, written, n) ==
    Len(read) >= n /\ \A i \in 1..n : read[i] = written[i]

\* C13: reading the data file the LAMMPS Writer produced recovers, for every
\* bond, angle and dihedral, the 0-based atom indices and the 0-based
\* force-field index of the written record.
C13_TopologyRoundTrip ==
    (cls = "LammpsReader" /\ pc = "done" /\ fp = "closed") =>
        /\ SamePrefix(Mol.bond_from, given.bond_from, given.no_bonds)
        /\ SamePrefix(Mol.bond_to, given.bond_to, given.no_bonds)
        /\ SamePrefix(Mol.bond_ff_index, given.bond_ff_index, given.no_bonds)
        /\ SamePrefix(Mol.angle_a, given.angle_a, given.no_angles)
        /\ SamePrefix(Mol.angle_b, given.angle_b, given.no_angles)
        /\ SamePrefix(Mol.angle_c, given.angle_c, given.no_angles)
        /\ SamePrefix(Mol.angle_ff_index, given.angle_ff_index, given.no_angles)
        /\ SamePrefix(Mol.dihed_a, given.dihed_a, given.no_diheds)
        /\ SamePrefix(Mol.dihed_b, given.dihed_b, given.no_diheds)
        /\ SamePrefix(Mol.dihed_c, given.dihed_c, given.no_diheds)
        /\ SamePrefix(Mol.dihed_d, given.dihed_d, given.no_diheds)
        /\ SamePrefix(Mol.dihed_ff_index, given.dihed_ff_index, given.no_diheds)

\* the bonds alone are recovered
C13_BondsRoundTrip ==
    (cls = "LammpsReader" /\ pc = "done" /\ fp = "closed") =>
        /\ SamePrefix(Mol.bond_from, given.bond_from, given.no_bonds)
        /\ SamePrefix(Mol.bond_to, given.bond_to, given.no_bonds)
        /\ SamePrefix(Mol.bond_ff_index, given.bond_ff_index, given.no_bonds)

\* a file with bonds has been written and read to the end
C13_ReadBackDone ==
    cls = "LammpsReader" /\ pc = "done" /\ fp = "closed" /\ given.no_angles = 2

\* C14: the LAMMPS reader stores one atom_type and one atom_name entry for
\* every atom line it reads, with or without a trailing comment.
C14_TypePerAtomLine ==
    cls = "LammpsReader" =>
        /\ Len(Mol.atom_type) = Len(Mol.atom_x)
        /\ Len(Mol.atom_name) = Len(Mol.atom_x)

\* the line after which the rows of Dihedral Coeffs are written
DihedCoeffsAt ==
    CHOOSE h \in 1..Len(lines) : lines[h] = LmpText(<<W("Dihedral"), W("Coeffs")>>)

\* the phase coefficient on the row of dihedral type t
WrittenPhase(t) == lines[DihedCoeffsAt + 1 + t].w[3].n

\* C15: for each dihedral type the LAMMPS writer writes the phase coefficient
\* +1 when cos(FF_dihed_phase) >= 0 and -1 when it is negative; phase 0 is
\* written +1 and phase pi is written -1.
C15_PhaseIsSignOfCos ==
    (cls = "LammpsWriter" /\ pc = "written" /\ ret = "None") =>
        \A t \in 1..given.no_dihed_types :
            WrittenPhase(t) = IF Cos1000(given.FF_dihed_phase[t]) >= 0 THEN 1 ELSE -1

\* what is written instead: +1 unless the phase is 0 or pi
C15_PhaseAsWritten ==
    (cls = "LammpsWriter" /\ pc = "written" /\ ret = "None") =>
        \A t \in 1..given.no_dihed_types :
            WrittenPhase(t) = IF given.FF_dihed_phase[t] \in {"0", "pi"} THEN -1 ELSE 1

\* C17: once write() of any Writer has returned, with or without an error
\* reported, the file the constructor opened is closed.
C17_ReturnedMeansClosed ==
    (pc = "written" /\ ret \in {"None", "False"}) => fp = "closed"

\* a write() that returns None has closed the file
C17_NoneMeansClosed ==
    (pc = "written" /\ ret = "None") => fp = "closed"

\* the bonds of the record name atoms of the record
BondsInRange(M, natoms) ==
    /\ \A i \in 1..Len(M.bond_from) : 0 <= M.bond_from[i] /\ M.bond_from[i] < natoms
    /\ \A i \in 1..Len(M.bond_to) : 0 <= M.bond_to[i] /\ M.bond_to[i] < natoms

\* a MOL2 read has ended with a record, not with None, False or an exception
Mol2ReadOk ==
    \/ cls = "tripos_mol2.read" /\ pc = "done" /\ ret = "MOL"
    \/ cls = "Mol2Reader" /\ pc = "done" /\ err = NoErr

\* C18: every record a successful TRIPOS MOL2 read returns has
\* 0 <= bond_from[i] < no_atoms and 0 <= bond_to[i] < no_atoms for every bond;
\* a BOND line naming atom 0 or an atom past the last makes the read fail.
C18_BondsNameAtoms == Mol2ReadOk => BondsInRange(Mol, Mol.no_atoms)

\* Mol2Reader refuses an atom id past the last atom, not the id 0
C18_Mol2ReaderBelowCount ==
    (cls = "Mol2Reader" /\ Mol2ReadOk) =>
        \A i \in 1..Len(Mol.bond_from) :
            Mol.bond_from[i] < Len(Mol.strc) /\ Mol.bond_to[i] < Len(Mol.strc)

\* C19: after PDB.read of a file with atoms the counts agree with the lists:
\* no_atoms = len(atom_x) = len(atom_name), no_bonds = len(bond_from) =
\* len(bond_to), and check_atoms_ok and check_bonds_ok pass on the record.
C19_CountsMatchLists ==
    (cls = "PDBReader" /\ pc = "built" /\ err = NoErr /\ Len(Mol.atom_x) > 0) =>
        /\ Mol.no_atoms = Len(Mol.atom_x)
        /\ Mol.no_atoms = Len(Mol.atom_name)
        /\ Mol.no_bonds = Len(Mol.bond_from)
        /\ Mol.no_bonds = Len(Mol.bond_to)
        /\ CheckAtomsOk(Mol)
        /\ CheckBondsOk(Mol)

\* the lists themselves agree: one name, one coordinate per atom, two ends per bond
C19_ListsAgree ==
    (cls = "PDBReader" /\ pc = "built" /\ err = NoErr) =>
        /\ Len(Mol.atom_name) = Len(Mol.atom_x)
        /\ Len(Mol.bond_from) = Len(Mol.bond_to)

\* the atoms a stored bond joins, without direction
BondPair(M, i) == {M.bond_from[i], M.bond_to[i]}

\* C20: after the CONECT handler no unordered atom pair occurs more than once
\* among the stored bonds, however often and in whichever order the CONECT
\* lines list it.
C20_NoBondTwice ==
    cls = "PDBReader" =>
        \A i, j \in 1..Len(Mol.bond_from) : i # j => BondPair(Mol, i) # BondPair(Mol, j)

\* a pair listed once in each direction within one CONECT section is stored once
C20_ReversedOnce ==
    (cls = "PDBReader" /\ pc = "done" /\ Len(calls) > 0 /\ Last(calls).section = "CONECT") =>
        \A i, j \in 1..Len(Mol.bond_from) :
            i # j => <<Mol.bond_from[i], Mol.bond_to[i]>> # <<Mol.bond_to[j], Mol.bond_from[j]>>

----------------------------------------------------------------------------
(* Claims about amber_parm7.read *)

\* the restart file has been read: read_rst7 was called on the file in given
Rst7Done == cls = "amber_parm7.read" /\ pc = "done" /\ given # <<>>

\* T: the tokens after the two header lines of the restart file in given
Rst7Tokens ==
    SeqSum([i \in 1..Len(given) |-> IF i > 2 /\ given[i].k # "blank" THEN Len(given[i].w) ELSE 0])

\* N: the atom count the restart file declares, 0 when its second line is blank
Rst7Declared == IF given[2].k = "blank" THEN 0 ELSE given[2].w[1].n

\* the tokens stored as velocities, and as box lengths or angles (the number in
\* place i of the file is i; 0 and 90 are the values of initialize())
Rst7Velocities == Range(Mol.atom_vx) \cup Range(Mol.atom_vy) \cup Range(Mol.atom_vz)

Rst7Box ==
    {Mol.box_x, Mol.box_y, Mol.box_z, Mol.box_alpha, Mol.box_beta, Mol.box_gamma} \ {0, 90}

\* C21: read_rst7 gives each token at most one role: for N >= 1 atoms and T tokens
\* velocities are stored only when T is 6N, 6N+3 or 6N+6, box lengths or angles
\* only when T is 3N+3, 3N+6, 6N+3 or 6N+6, and no token is stored both as a
\* velocity and as a box length or angle.
C21_OneRolePerToken ==
    (Rst7Done /\ ret \in {"MOL", "False"} /\ Rst7Declared >= 1) =>
        LET n == Rst7Declared
            t == Rst7Tokens
        IN /\ Rst7Velocities # {} => t \in {6 * n, 6 * n + 3, 6 * n + 6}
           /\ Rst7Box # {} => t \in {3 * n + 3, 3 * n + 6, 6 * n + 3, 6 * n + 6}
           /\ Rst7Velocities \cap Rst7Box = {}

\* what read_rst7 does: velocities are stored whenever t >= 6N, and they are the
\* tokens 3N+1..6N; the box is stored exactly at the four sizes, from the first
\* words of the last line
C21_RolesAsCoded ==
    (Rst7Done /\ ret \in {"MOL", "False"} /\ Rst7Declared >= 1) =>
        LET n == Rst7Declared
            t == Rst7Tokens
        IN /\ Rst7Velocities = (IF t >= 6 * n THEN (3 * n + 1)..(6 * n) ELSE {})
           /\ Rst7Box # {} <=> t \in {3 * n + 3, 3 * n + 6, 6 * n + 3, 6 * n + 6}
           /\ Rst7Box # {} => Mol.box_x = Last(given).w[1].n

\* C22: when the atom count of the restart file differs from the record's
\* no_atoms, or fewer than 3 * no_atoms coordinate tokens are present, read()
\* returns False: it raises no exception and appends nothing to atom_x, atom_y
\* or atom_z.
C22_MismatchReturnsFalse ==
    (Rst7Done /\ (Rst7Declared # Mol.no_atoms \/ Rst7Tokens < 3 * Mol.no_atoms)) =>
        /\ ret = "False"
        /\ err = NoErr
        /\ Mol.atom_x = <<>> /\ Mol.atom_y = <<>> /\ Mol.atom_z = <<>>

\* what holds of a declared count that differs: nothing is appended, and read()
\* ends in the exception core.check raises on the False it is handed
C22_MismatchAppendsNothing ==
    (Rst7Done /\ given[2].k # "blank"
     /\ (Rst7Declared # Mol.no_atoms \/ Rst7Tokens < 3 * Mol.no_atoms)) =>
        /\ ret = "raise" /\ err = "TypeError"
        /\ Mol.atom_x = <<>> /\ Mol.atom_y = <<>> /\ Mol.atom_z = <<>>

\* the section a line of the prmtop file belongs to: the word of the last %FLAG
\* line before it
PrmtopSectionOf(i) ==
    LET flags == {j \in 1..i : lines[j].k = "flag"}
    IN IF flags = {} THEN NoneVal ELSE lines[SetMax(flags)].word

\* the format a line of the prmtop file is read in: the last %FORMAT line before it
PrmtopFormatOf(i) ==
    LET formats == {j \in 1..i : lines[j].k = "format"}
    IN IF formats = {} THEN NoneVal ELSE lines[SetMax(formats)].word

\* the integer tokens of the data lines of the named sections, in file order:
\* fields of 8 characters under the format 10I8, words otherwise
PrmtopTokens(names) ==
    LET toks(i) == IF PrmtopFormatOf(i) = "10I8"
                   THEN SelectSeq(FixedWidth(lines[i].c, 8), LAMBDA t : t # <<>>)
                   ELSE Split(lines[i].c)
        all[i \in 0..Len(lines)] ==
            IF i = 0 THEN <<>>
            ELSE IF lines[i].k = "data" /\ PrmtopSectionOf(i) \in names
                 THEN all[i - 1] \o [j \in 1..Len(toks(i)) |-> PyInt(toks(i)[j]).n]
                 ELSE all[i - 1]
    IN all[Len(lines)]

Abs(t) == IF t < 0 THEN 0 - t ELSE t

\* column j of the records of w tokens: |t| div 3 of an atom token, t - 1 of the
\* last token
DecodedColumn(t, w, j) ==
    [r \in 1..(Len(t) \div w) |->
        IF j = w THEN t[(r - 1) * w + j] - 1 ELSE Abs(t[(r - 1) * w + j]) \div 3]

\* the prmtop file has been read to its end without an abort
PrmtopRead == cls = "amber_parm7.read" /\ (pc = "read_rst7" \/ (pc = "done" /\ given # <<>>))

\* C23: every record (t0, t1, t2) of BONDS_INC_HYDROGEN and BONDS_WITHOUT_HYDROGEN
\* appends bond_from = |t0| div 3, bond_to = |t1| div 3, bond_ff_index = t2 - 1,
\* the records of both sections accumulating in one list in file order; angle
\* records (4 tokens) and dihedral records (5 tokens) are decoded the same way,
\* and a negative atom token decodes as its absolute value.
C23_BondRecordsDecoded ==
    PrmtopRead =>
        LET b == PrmtopTokens({"BONDS_INC_HYDROGEN", "BONDS_WITHOUT_HYDROGEN"})
            a == PrmtopTokens({"ANGLES_INC_HYDROGEN", "ANGLES_WITHOUT_HYDROGEN"})
            d == PrmtopTokens({"DIHEDRALS_INC_HYDROGEN", "DIHEDRALS_WITHOUT_HYDROGEN"})
        IN /\ Mol.bond_from = DecodedColumn(b, 3, 1)
           /\ Mol.bond_to = DecodedColumn(b, 3, 2)
           /\ Mol.bond_ff_index = DecodedColumn(b, 3, 3)
           /\ Mol.angle_a = DecodedColumn(a, 4, 1)
           /\ Mol.angle_b = DecodedColumn(a, 4, 2)
           /\ Mol.angle_c = DecodedColumn(a, 4, 3)
           /\ Mol.angle_ff_index = DecodedColumn(a, 4, 4)
           /\ Mol.dihed_a = DecodedColumn(d, 5, 1)
           /\ Mol.dihed_b = DecodedColumn(d, 5, 2)
           /\ Mol.dihed_c = DecodedColumn(d, 5, 3)
           /\ Mol.dihed_d = DecodedColumn(d, 5, 4)
           /\ Mol.dihed_ff_index = DecodedColumn(d, 5, 5)

\* a file with a record in each of the two bond sections, an angle and a dihedral
\* with negative atom tokens has been read
C23_Witness ==
    /\ PrmtopRead
    /\ Len(Mol.bond_from) = 2 /\ Len(Mol.angle_a) = 1 /\ Len(Mol.dihed_a) = 1
    /\ \E i \in 1..Len(PrmtopTokens({"BONDS_INC_HYDROGEN", "BONDS_WITHOUT_HYDROGEN"})) :
          PrmtopTokens({"BONDS_INC_HYDROGEN", "BONDS_WITHOUT_HYDROGEN"})[i] < 0
    /\ \E i \in 1..Len(PrmtopTokens({"DIHEDRALS_INC_HYDROGEN", "DIHEDRALS_WITHOUT_HYDROGEN"})) :
          PrmtopTokens({"DIHEDRALS_INC_HYDROGEN", "DIHEDRALS_WITHOUT_HYDROGEN"})[i] < 0

\* the scenario of the bond index decode: tokens (9, 12, 2) give 3, 4 and 1
C23_Scenario ==
    (PrmtopRead /\ PrmtopTokens({"BONDS_INC_HYDROGEN", "BONDS_WITHOUT_HYDROGEN"}) = <<9, 12, 2>>) =>
        (Mol.bond_from = <<3>> /\ Mol.bond_to = <<4>> /\ Mol.bond_ff_index = <<1>>)

\* the step of read_prmtop that hands the ATOM_NAME section to process_last_section
AtomNameStep ==
    /\ cls = "amber_parm7.read" /\ pc = "read_prmtop" /\ lsec = "ATOM_NAME"
    /\ (ln = Len(lines) \/ (lines[ln + 1].k = "flag" /\ lines[ln + 1].word # NoneVal))

\* the names whitespace splitting finds in the buffered lines of the section
AtomNameWords ==
    LET all[i \in 0..Len(section_lines)] ==
            IF i = 0 THEN <<>> ELSE all[i - 1] \o Split(section_lines[i])
    IN all[Len(section_lines)]

\* a line without its line terminator
Unterminated(l) == IF l # <<>> /\ Last(l) = "\n" THEN Front(l) ELSE l

\* the 4-character name fields of the buffered lines, stripped, when every line
\* is a whole number of fields
AtomNameFields ==
    LET all[i \in 0..Len(section_lines)] ==
            IF i = 0 THEN <<>>
            ELSE LET l == Unterminated(section_lines[i])
                 IN all[i - 1] \o [j \in 1..(Len(l) \div 4) |->
                                      Strip(SubSeq(l, 4 * j - 3, 4 * j))]
    IN all[Len(section_lines)]

ExactlyNoAtomsFields ==
    /\ \A i \in 1..Len(section_lines) : Len(Unterminated(section_lines[i])) % 4 = 0
    /\ Len(AtomNameFields) = Mol.no_atoms

\* C30: when whitespace splitting of the ATOM_NAME section does not yield
\* no_atoms names but its lines consist of exactly no_atoms consecutive
\* 4-character name fields, the fixed-width fallback yields exactly no_atoms names
\* and the section is accepted with those names appended to atom_name; when the
\* read aborts, nothing has been appended to atom_name.
C30_FixedWidthFallback ==
    [][ (AtomNameStep /\ Len(AtomNameWords) # Mol.no_atoms) =>
          /\ ExactlyNoAtomsFields =>
                (pc' # "done" /\ Mol'.atom_name = Mol.atom_name \o AtomNameFields)
          /\ pc' = "done" => (ret' = "False" /\ Mol'.atom_name = Mol.atom_name) ]_vars

\* what the fallback does: the fields are cut from the lines as buffered, line
\* terminator included, so every terminated line of whole fields counts one
\* empty name more; the section is accepted exactly when that count is no_atoms
C30_FallbackCountsLineEnds ==
    [][ (AtomNameStep /\ Len(AtomNameWords) # Mol.no_atoms) =>
          LET ends == Cardinality({i \in 1..Len(section_lines) :
                                     section_lines[i] # <<>> /\ Last(section_lines[i]) = "\n"})
          IN /\ ExactlyNoAtomsFields =>
                  (pc' # "done" <=> ends = 0)
             /\ pc' = "done" => (ret' = "False" /\ Mol'.atom_name = Mol.atom_name) ]_vars

\* the conditions on a record under which check is said to return true
AllCountsAgree(M) ==
    /\ M.no_atoms # 0
    /\ \A key \in {"atom_name", "atom_x", "atom_y", "atom_z", "atom_type"} :
          Len(M[key]) = M.no_atoms
    /\ (M.atom_q = <<>> \/ Len(M.atom_q) = M.no_atoms)
    /\ Len(M.bond_from) = M.no_bonds /\ Len(M.bond_to) = M.no_bonds
    /\ Len(M.residue_name) = M.no_residues /\ Len(M.residue_start) = M.no_residues

\* C25: check(MOL) returns true exactly when no_atoms is non-zero, atom_name,
\* atom_x, atom_y, atom_z and atom_type have length no_atoms, atom_q is empty or
\* has length no_atoms, bond_from and bond_to have length no_bonds, and
\* residue_name and residue_start have length no_residues; check and its
\* sub-checks leave the record as read_rst7 returned it.
C25_CheckIsTheConjunction ==
    [][ (cls = "amber_parm7.read" /\ pc = "read_rst7" /\ ret' \in {"MOL", "False"}) =>
          /\ ret' = "MOL" <=> AllCountsAgree(Mol')
          /\ Mol' = ReadRst7(Mol, given').M ]_vars

\* check has returned true on a record with a bond and charges
C25_Witness ==
    Rst7Done /\ ret = "MOL" /\ (Mol.no_bonds > 0 \/ Mol.atom_q # <<>>)

\* check returns false for each kind of disagreement
C25_WitnessCharges ==
    Rst7Done /\ ret = "False" /\ Mol.atom_q # <<>> /\ Len(Mol.atom_q) # Mol.no_atoms
    /\ Len(Mol.atom_x) = Mol.no_atoms

C25_WitnessBonds ==
    Rst7Done /\ ret = "False" /\ Len(Mol.bond_from) # Mol.no_bonds /\ CheckAtomsOk(Mol)

C25_WitnessResidues ==
    Rst7Done /\ ret = "False" /\ Len(Mol.residue_start) # Mol.no_residues
    /\ CheckAtomsOk(Mol) /\ CheckBondsOk(Mol)

----------------------------------------------------------------------------
(* Claims about the CONECT lines of a PDB file *)

ConectLine(l) == l.k = "REMARK" /\ l.tag = "CONECT"

\* the line numbers handed to the handler of the section sec
DeliveredTo(sec) ==
    UNION {SectionLineNos(lines, calls[n]) :
             n \in {m \in 1..Len(calls) : calls[m].section = sec}}

\* an input in which REMARK lines tagged CONECT follow the ATOM records
ConectFollowsAtoms(ls) ==
    /\ \E i \in 1..Len(ls) : ls[i].k = "ATOM"
    /\ \E j \in 1..Len(ls) : ConectLine(ls[j])
    /\ \A i, j \in 1..Len(ls) : (ls[i].k = "ATOM" /\ ConectLine(ls[j])) => i < j

\* C29: in the PDB reader, when REMARK lines tagged CONECT follow the ATOM
\* records, every such line is buffered into a CONECT section and delivered to
\* the CONECT handler and none is delivered to the ATOM handler, for any number
\* of CONECT lines, including exactly one.
C29_ConectLinesDelivered ==
    (cls = "PDBReader" /\ pc \in {"done", "raised"} /\ ln = Len(lines)
        /\ ConectFollowsAtoms(lines)) =>
        \A j \in 1..Len(lines) :
            ConectLine(lines[j]) => (j \in DeliveredTo("CONECT") /\ j \notin DeliveredTo("ATOM"))

\* what the lookahead gives: a CONECT line is delivered to the CONECT handler when
\* the section is declared on the line before it (a REMARK line) or on the line
\* itself (the next line is tagged CONECT), and the line after it is not tagged
\* RESCON or SEGRNG (or the line would open that section)
C29_DeliveredByLookahead ==
    (cls = "PDBReader" /\ pc = "done" /\ ConectFollowsAtoms(lines)) =>
        \A j \in 2..Len(lines) :
            (/\ ConectLine(lines[j])
             /\ \/ lines[j - 1].k = "REMARK"
                \/ (j < Len(lines) /\ ConectLine(lines[j + 1]))
             /\ (j = Len(lines) \/ lines[j + 1].k # "REMARK"
                   \/ lines[j + 1].tag \notin {"RESCON", "SEGRNG"}))
            => j \in DeliveredTo("CONECT")

\* the single CONECT line after an ATOM record is handed to the ATOM handler
C29_SingleLineToAtomHandler ==
    (cls = "PDBReader" /\ pc \in {"done", "raised"} /\ Len(lines) = 2
        /\ lines[1].k = "ATOM" /\ ConectLine(lines[2])) =>
        (DeliveredTo("CONECT") = {} /\ DeliveredTo("ATOM") = {1, 2} /\ err = "ValueError")

----------------------------------------------------------------------------
(* Claims about the Lennard-Jones coefficients of the PARM7 build *)

\* amber_parm7.build has been called once, on a record read from a prmtop file
Parm7Built ==
    pc = "build" /\ adapter = <<"PARM7">> /\ given.source_format = "AMBER PARM7"

\* C24: for each type i in 0..NTYPES-1 the PARM7 build takes the coefficient pair
\* at j = parm7_lj_index[i*(NTYPES+1)] - 1, a valid position of the NTYPES*NTYPES
\* table; epsilon is 0 whenever A[j] = 0, sigma is 0 whenever B[j] = 0, and no
\* quotient with a zero A or a zero B as divisor is evaluated, A[j] = B[j] = 0
\* included.
C24_LJFromDiagonal ==
    Parm7Built =>
        LET nt == given.PARM_NTYPES
        IN /\ Len(Mol.parm7_lj_epsilon) = nt /\ Len(Mol.parm7_lj_sigma) = nt
           /\ err # "ZeroDivisionError"
           /\ \A i \in 0..(nt - 1) :
                 LET p == i * (nt + 1)
                     j == given.parm7_lj_index[p + 1] - 1
                     A == given.parm7_lj_acoeff[j + 1]
                     B == given.parm7_lj_bcoeff[j + 1]
                     eps == Mol.parm7_lj_epsilon[i + 1]
                     sigma == Mol.parm7_lj_sigma[i + 1]
                 IN /\ p < Len(given.parm7_lj_index)
                    /\ Len(given.parm7_lj_index) = nt * nt
                    /\ A = 0 => eps = LJZero
                    /\ B = 0 => sigma = LJZero
                    /\ A # 0 => (eps.num = B * B /\ (B # 0 => eps.den = 4 * A))
                    /\ B # 0 => (sigma.num = A /\ (A # 0 => sigma.den = B /\ sigma.root = 6))
                    /\ eps.den # 0 /\ sigma.den # 0

\* a build over two types whose pairs have a zero A and a non-zero B
C24_Witness ==
    /\ Parm7Built
    /\ given.PARM_NTYPES = 2
    /\ given.parm7_lj_acoeff = <<0, 0, 0>> /\ given.parm7_lj_bcoeff = <<1, 2, 3>>
    /\ Mol.parm7_lj_epsilon = <<LJZero, LJZero>>

\* both coefficients zero, and a zero B with a non-zero A
C24_WitnessBothZero ==
    Parm7Built /\ given.parm7_lj_acoeff[1] = 0 /\ given.parm7_lj_bcoeff[1] = 0
    /\ Mol.parm7_lj_epsilon[1] = LJZero /\ Mol.parm7_lj_sigma[1] = LJZero

C24_WitnessZeroB ==
    Parm7Built /\ given.parm7_lj_acoeff[1] = 1 /\ given.parm7_lj_bcoeff[1] = 0
    /\ Mol.parm7_lj_sigma[1] = LJZero

\* with two types the pairs taken are the first and the third of the lists
C24_WitnessDiagonal ==
    Parm7Built /\ given.PARM_NTYPES = 2 /\ given.parm7_lj_acoeff = <<4, 8, 12>>
    /\ Mol.parm7_lj_epsilon = <<[num |-> 4, den |-> 16, root |-> 1],
                                [num |-> 36, den |-> 48, root |-> 1]>>

----------------------------------------------------------------------------
(* Claims about the box written by the LAMMPS Writer *)

\* the line of the written file that carries the bounds of an axis
BoundsLines(lohi) ==
    {i \in 1..Len(lines) : lines[i].k = "text" /\ Len(lines[i].w) = 4 /\ lines[i].w[3] = W(lohi)}

\* the smallest and the largest of a non-empty list of numbers
Smallest(s) == CHOOSE m \in Range(s) : \A v \in Range(s) : m <= v

Largest(s) == CHOOSE m \in Range(s) : \A v \in Range(s) : m >= v

\* the bounds of one axis are written as lo and hi
AxisWritten(lohi, lo, hi) ==
    \E i \in BoundsLines(lohi) :
        /\ BoundsLines(lohi) = {i}
        /\ lines[i].w[1] = N(lo) /\ lines[i].w[2] = N(hi)

\* C26: the LAMMPS writer computes the box bounds of each axis independently: a
\* stored box length of 0 gives lo = min(coordinate) - 3.0 and hi =
\* max(coordinate) + 3.0 on that axis, any other gives lo = 0 and hi = the box
\* length; atom_x over [-2, 2] with box_x = 0 gives xlo = -5 and xhi = 5.
C26_BoxBoundsPerAxis ==
    (cls = "LammpsWriter" /\ pc = "written" /\ ret = "None") =>
        /\ IF given.box_x = 0
           THEN AxisWritten("xlo", Smallest(given.atom_x) - 3, Largest(given.atom_x) + 3)
           ELSE AxisWritten("xlo", 0, given.box_x)
        /\ IF given.box_y = 0
           THEN AxisWritten("ylo", Smallest(given.atom_y) - 3, Largest(given.atom_y) + 3)
           ELSE AxisWritten("ylo", 0, given.box_y)
        /\ IF given.box_z = 0
           THEN AxisWritten("zlo", Smallest(given.atom_z) - 3, Largest(given.atom_z) + 3)
           ELSE AxisWritten("zlo", 0, given.box_z)
        /\ (given.box_x = 0 /\ Smallest(given.atom_x) = -2 /\ Largest(given.atom_x) = 2)
              => AxisWritten("xlo", -5, 5)

\* the scenario, on a record whose y and z box lengths are stored
C26_Witness ==
    /\ cls = "LammpsWriter" /\ pc = "written" /\ ret = "None"
    /\ given.atom_x = <<-2, 0, 2>> /\ given.box_x = 0
    /\ given.box_y = 10 /\ given.box_z = 20
    /\ AxisWritten("xlo", -5, 5) /\ AxisWritten("ylo", 0, 10) /\ AxisWritten("zlo", 0, 20)

----------------------------------------------------------------------------
(* Claims about AttrDict *)

\* a string that matches [a-zA-Z_][a-zA-Z_0-9]* from its first to its last character
IsIdentifier(c) ==
    /\ c # <<>>
    /\ c[1] \in Letters \cup {"_"}
    /\ \A i \in 1..Len(c) : c[i] \in Letters \cup Digits \cup {"_"}

\* a key the AttrDict is to refuse
Refused(key) == ~key.str \/ key.c \in DictNamespace \/ ~IsIdentifier(key.c)

\* key is stored with the value and reads back as an item and as an attribute
StoredAndReadable(d, key, value) ==
    /\ DictHas(d, key) /\ DictGet(d, key) = value
    /\ AttrDict_getattr(d, key).ret = value

\* C28: assigning a key to an AttrDict by item, by attribute or through the
\* constructor's dict raises KeyError and leaves the contents unchanged when the
\* key is a name of dict's namespace, is no string or does not match
\* [a-zA-Z_][a-zA-Z_0-9]*; every other string key is stored and then readable as
\* an item and as an attribute.
C28_KeysRefusedOrStored ==
    [][ /\ (cls = "AttrDict" /\ pc' \in {"setitem", "setattr"} /\ pass' # pass) =>
             IF Refused(given'.k)
             THEN ret' = "raise" /\ err' = "KeyError" /\ Mol' = Mol
             ELSE ret' = "None" /\ StoredAndReadable(Mol', given'.k, given'.v)
        /\ (cls = "AttrDict" /\ pc' = "init" /\ pass' # pass) =>
             IF \E i \in 1..Len(first') : Refused(first'[i].k)
             THEN ret' = "raise" /\ err' = "KeyError"
             ELSE /\ ret' = "None"
                  /\ \A i \in 1..Len(first') :
                        StoredAndReadable(Mol', first'[i].k, first'[i].v) ]_vars

\* what holds of an assignment: a refused key raises KeyError and changes
\* nothing, except that a name followed by one newline is stored; a stored key
\* reads back as an item, and as an attribute unless normal lookup finds the
\* name on the class
C28_AsCoded ==
    [][ (cls = "AttrDict" /\ pc' \in {"setitem", "setattr"} /\ pass' # pass) =>
          LET key == given'.k
              lined == key.str /\ key.c # <<>> /\ Last(key.c) = "\n"
                       /\ IsIdentifier(Front(key.c))
          IN IF Refused(key) /\ ~lined
             THEN ret' = "raise" /\ err' = "KeyError" /\ Mol' = Mol
             ELSE /\ ret' = "None"
                  /\ DictHas(Mol', key) /\ DictGet(Mol', key) = given'.v
                  /\ AttrDict_getattr(Mol', key).ret =
                        (IF key.c \in ClassNamespace THEN "<attribute>" ELSE given'.v) ]_vars

\* the constructor stops at the first refused key with the items before it
\* already assigned
C28_ConstructorStopsHalfway ==
    [][ (cls = "AttrDict" /\ pc' = "init" /\ pass' # pass /\ Len(first') = 2
         /\ Refused(first'[2].k) /\ ~Refused(first'[1].k) /\ ret' = "raise") =>
          Mol' = <<first'[1]>> ]_vars

----------------------------------------------------------------------------
(* Claims about the BOND records of Mol2Writer *)

\* mol2.write has written the record a Mol2Reader read
Mol2Written == cls = "Mol2Reader" /\ pc = "written" /\ ret = "None"

\* the BOND records of the file written, as (from, to, type), atoms 0-based
BondRecords ==
    LET at(name) == CHOOSE k \in 1..Len(lines) : lines[k].w = <<W(name)>>
        recs == SubSeq(lines, at("@<TRIPOS>BOND") + 1, at("@<TRIPOS>SUBSTRUCTURE") - 1)
    IN [k \in 1..Len(recs) |-> <<recs[k].w[2].n - 1, recs[k].w[3].n - 1, recs[k].w[4].n>>]

\* the connectivity entries of atom i (0-based) that hold j
Entries(i, j) == Cardinality({k \in 1..Len(Mol.strc[i + 1]) : Mol.strc[i + 1][k] = j})

\* the unordered pairs the connectivity joins
BondedPairs ==
    UNION {{{i - 1, j} : j \in Range(Mol.strc[i])} : i \in 1..Len(Mol.strc)}

\* C27: Mol2Writer writes exactly one BOND record for every unordered pair of
\* atoms the connectivity joins and none for any other pair; the type of the
\* record is the number of parallel entries the row of its first atom holds
\* for the second.
C27_OneRecordPerBondedPair ==
    Mol2Written =>
        /\ \A p \in BondedPairs :
               Cardinality({k \in 1..Len(BondRecords) :
                               {BondRecords[k][1], BondRecords[k][2]} = p}) = 1
        /\ \A k \in 1..Len(BondRecords) :
               /\ {BondRecords[k][1], BondRecords[k][2]} \in BondedPairs
               /\ BondRecords[k][3] = Entries(BondRecords[k][1], BondRecords[k][2])
               /\ lines[k + CHOOSE b \in 1..Len(lines) :
                                lines[b].w = <<W("@<TRIPOS>BOND")>>].w[1] = N(k)

\* two atoms joined by two parallel entries in either row are written as one
\* record of type 2
C27_Witness ==
    /\ Mol2Written
    /\ \E i, j \in 0..(Len(Mol.strc) - 1) :
          /\ i < j
          /\ Entries(i, j) = 2
          /\ Entries(j, i) = 2
          /\ BondRecords = <<(<<i, j, 2>>)>>

\* where every BOND line of the file read names two atoms of the file, both
\* rows hold the same number of entries for the pair
C27_RowsAgree ==
    (Mol2Written /\ \A i \in 1..Len(Mol.bond_from) : Mol.bond_from[i] >= 0 /\ Mol.bond_to[i] >= 0) =>
        \A k \in 1..Len(BondRecords) :
            BondRecords[k][1] # BondRecords[k][2] =>
                BondRecords[k][3] = Entries(BondRecords[k][2], BondRecords[k][1])

====
